---------------------------- MODULE Spec2Model ----------------------------
(***************************************************************************)
(* Logistic regression aggregates of modules/regress/logistic.cpp:        *)
(* conjugate gradient (CG), iteratively reweighted least squares (IRLS),  *)
(* incremental gradient descent (IGD), robust variance and marginal       *)
(* effects.  Each aggregate is a transition / merge / final triple over a *)
(* flat DOUBLE PRECISION array; the state classes are views over that     *)
(* array at offsets computed from widthOfX.                               *)
(*                                                                         *)
(* A state is modelled as the array itself (a sequence; C++ index i is    *)
(* element i+1).  A double is modelled as a fixed-point number with Scale *)
(* units per 1.0, plus the three non-finite values PInf, NInf and NaN.    *)
(* Integer-typed fields (widthOfX, numRows, status, iteration) hold plain *)
(* integers.                                                               *)
(***************************************************************************)
EXTENDS Integers, Sequences, FiniteSets, TLC

\* ------------------------------------------------------------------------
\* Bounds of the model
\* ------------------------------------------------------------------------
\* number of partitions (segments) the host scans in parallel
NumParts == 3
\* number of rows the host feeds over the whole run
MaxRows == 3
\* number of aggregate calls (iterations) the host drives
MaxIter == 2

\* ------------------------------------------------------------------------
\* double arithmetic
\* ------------------------------------------------------------------------
\* fixed-point units per 1.0
Scale == 1000
\* largest finite magnitude of the fixed-point format
MaxMag == 1000000000
PInf == 2000000000
NInf == -2000000000
NaN == 2100000000

IsFin(a) == a # PInf /\ a # NInf /\ a # NaN
IsInf(a) == a = PInf \/ a = NInf
\* std::abs: PInf for both infinities, NaN for NaN
Abs(a) == IF a < 0 THEN -a ELSE a
Sgn(a) == IF a = PInf THEN 1 ELSE IF a = NInf THEN -1
          ELSE IF a > 0 THEN 1 ELSE IF a < 0 THEN -1 ELSE 0
SignedInf(s) == IF s < 0 THEN NInf ELSE PInf
\* integer division rounding toward zero
TruncDiv(a, b) == Sgn(a) * Sgn(b) * (Abs(a) \div Abs(b))
\* a finite result, or the infinity a double overflows to
Finite(v) == IF v > MaxMag THEN PInf ELSE IF v < -MaxMag THEN NInf ELSE v

Neg(a) == IF a = NaN THEN NaN ELSE IF a = PInf THEN NInf
          ELSE IF a = NInf THEN PInf ELSE -a

Add(a, b) ==
    IF a = NaN \/ b = NaN THEN NaN
    ELSE IF IsInf(a) THEN (IF IsInf(b) /\ b # a THEN NaN ELSE a)
    ELSE IF IsInf(b) THEN b
    ELSE Finite(a + b)

Sub(a, b) == Add(a, Neg(b))

\* a product too large to form exactly: the larger factor loses its fraction
MulBig(a, b) ==
    IF Abs(TruncDiv(a, Scale)) > MaxMag \div Abs(b)
    THEN SignedInf(Sgn(a) * Sgn(b))
    ELSE TruncDiv(a, Scale) * b

Mul(a, b) ==
    IF a = NaN \/ b = NaN THEN NaN
    ELSE IF IsInf(a) \/ IsInf(b)
         THEN (IF a = 0 \/ b = 0 THEN NaN ELSE SignedInf(Sgn(a) * Sgn(b)))
    ELSE IF a = 0 \/ b = 0 THEN 0
    ELSE IF Abs(a) > (2 * MaxMag) \div Abs(b)
         THEN (IF Abs(a) >= Abs(b) THEN MulBig(a, b) ELSE MulBig(b, a))
    ELSE Finite(TruncDiv(a * b, Scale))

\* a quotient too large to form exactly
DivBig(q) ==
    IF Abs(q) > MaxMag \div Scale THEN SignedInf(Sgn(q)) ELSE q * Scale

Div(a, b) ==
    IF a = NaN \/ b = NaN THEN NaN
    ELSE IF IsInf(a) THEN (IF IsInf(b) THEN NaN
                           ELSE SignedInf(Sgn(a) * (IF b < 0 THEN -1 ELSE 1)))
    ELSE IF IsInf(b) THEN 0
    ELSE IF b = 0 THEN (IF a = 0 THEN NaN ELSE SignedInf(Sgn(a)))
    ELSE IF Abs(a) > (2 * MaxMag) \div Scale THEN DivBig(TruncDiv(a, b))
    ELSE Finite(TruncDiv(a * Scale, b))

\* a <= b on doubles: false when either side is NaN
Le(a, b) == a # NaN /\ b # NaN /\ a <= b

\* static_cast<double>(n) of an integer
ToDouble(n) == n * Scale

\* linear interpolation in a table of values at 0, 1, 2, ... ; t is at least
\* 0 and below the last point of the table
Interp(tab, t) ==
    tab[(t \div Scale) + 1]
      + ((tab[(t \div Scale) + 2] - tab[(t \div Scale) + 1]) * (t % Scale)) \div Scale

\* 1/(1+exp(-k)) at k = 0..8, to three decimals
SigmaTab == <<500, 731, 881, 953, 982, 993, 998, 999, 1000>>
\* ln(1+exp(k)) at k = 0..8, to three decimals
SoftplusTab == <<693, 1313, 2127, 3049, 4018, 5007, 6002, 7001, 8000>>

sigma(x) ==
    IF x = NaN THEN NaN
    ELSE IF x = PInf THEN Scale
    ELSE IF x = NInf THEN 0
    ELSE IF x >= 8 * Scale THEN Scale
    ELSE IF x <= -8 * Scale THEN 0
    ELSE IF x >= 0 THEN Interp(SigmaTab, x)
    ELSE Scale - Interp(SigmaTab, -x)

\* exp(k) at k = 0..13 and exp(-k) at k = 0..8, to three decimals
ExpTab == <<1000, 2718, 7389, 20086, 54598, 148413, 403429, 1096633, 2980958,
            8103084, 22026466, 59874142, 162754791, 442413392>>
ExpNegTab == <<1000, 368, 135, 50, 18, 7, 2, 1, 0>>
\* the two interpolation points of a table of large values, without overflow
InterpBig(tab, t) ==
    tab[(t \div Scale) + 1]
      + ((tab[(t \div Scale) + 2] - tab[(t \div Scale) + 1]) \div Scale) * (t % Scale)

\* std::exp
Exp(x) ==
    IF x = NaN THEN NaN
    ELSE IF x = PInf THEN PInf
    ELSE IF x = NInf THEN 0
    ELSE IF x >= 13 * Scale THEN PInf
    ELSE IF x <= -8 * Scale THEN 0
    ELSE IF x >= 0 THEN InterpBig(ExpTab, x)
    ELSE Interp(ExpNegTab, -x)

\* the argument from which std::exp overflows to infinity (ln of DBL_MAX)
ExpOverflow == 710
\* std::log(1. + std::exp(u))
Log1pExp(u) ==
    IF u = NaN THEN NaN
    ELSE IF u = PInf THEN PInf
    ELSE IF u = NInf THEN 0
    ELSE IF u >= ExpOverflow * Scale THEN PInf
    ELSE IF u >= 8 * Scale THEN u
    ELSE IF u <= -8 * Scale THEN 0
    ELSE IF u >= 0 THEN Interp(SoftplusTab, u)
    ELSE Interp(SoftplusTab, -u) + u

\* ------------------------------------------------------------------------
\* vectors and column-major matrices of doubles
\* ------------------------------------------------------------------------
Zeros(n) == [i \in 1..n |-> 0]

RECURSIVE DotFrom(_, _, _)
DotFrom(x, c, i) ==
    IF i > Len(x) THEN 0 ELSE Add(Mul(x[i], c[i]), DotFrom(x, c, i + 1))
dot(x, c) == DotFrom(x, c, 1)

VAdd(u, v) == [i \in 1..Len(u) |-> Add(u[i], v[i])]
VSub(u, v) == [i \in 1..Len(u) |-> Sub(u[i], v[i])]
VScale(s, v) == [i \in 1..Len(v) |-> Mul(s, v[i])]

\* entry (i,j) of a w x w column-major matrix, i and j from 1
At(m, w, i, j) == m[(j - 1) * w + i]
\* x * trans(x) * a
OuterScaled(x, a) ==
    [k \in 1..(Len(x) * Len(x)) |->
        Mul(Mul(x[((k - 1) % Len(x)) + 1], x[((k - 1) \div Len(x)) + 1]), a)]

\* trans(d) * m * d
RECURSIVE RowTimes(_, _, _, _, _)
RowTimes(d, m, w, j, i) ==
    IF i > w THEN 0 ELSE Add(Mul(d[i], At(m, w, i, j)), RowTimes(d, m, w, j, i + 1))
RECURSIVE QuadFrom(_, _, _, _)
QuadFrom(d, m, w, j) ==
    IF j > w THEN 0
    ELSE Add(Mul(RowTimes(d, m, w, j, 1), d[j]), QuadFrom(d, m, w, j + 1))
Quad(d, m) == QuadFrom(d, m, Len(d), 1)

\* ------------------------------------------------------------------------
\* the flat array and its views
\* ------------------------------------------------------------------------
Null == << >>
Slot(st, off) == st[off + 1]
Vec(st, off, n) == [i \in 1..n |-> st[off + i]]
Put(st, off, vals) ==
    [i \in 1..Len(st) |->
        IF i > off /\ i <= off + Len(vals) THEN vals[i - off] ELSE st[i]]
Put1(st, off, v) == Put(st, off, <<v>>)
\* static_cast<uint16_t>(mStorage[k])
ToUInt16(v) == v % 65536

IN_PROCESS == 0
COMPLETED == 1
TERMINATED == 2
\* std::numeric_limits<uint16_t>::max()
UInt16Max == 65535


\* ------------------------------------------------------------------------
\* the linear-algebra collaborator, for matrices up to 2 x 2
\* ------------------------------------------------------------------------
RECURSIVE ISqrtIter(_, _)
ISqrtIter(n, g) ==
    LET h == (g + n \div g) \div 2 IN IF h >= g THEN g ELSE ISqrtIter(n, h)
\* floor of the square root of a non-negative integer
ISqrt(n) == IF n <= 1 THEN n ELSE ISqrtIter(n, n)

\* std::sqrt on doubles
Sqrt(v) ==
    IF v = NaN \/ v = NInf THEN NaN
    ELSE IF v = PInf THEN PInf
    ELSE IF v < 0 THEN NaN
    ELSE IF v > (2 * MaxMag) \div Scale THEN ISqrt(v \div Scale) * Scale
    ELSE ISqrt(v * Scale)

AllFinite(m) == \A i \in 1..Len(m) : IsFin(m[i])

\* sqrt((a-d)^2 + 4 b^2): the gap between the two eigenvalues of [a b; b d]
EigenGap(a, b, d) ==
    IF Abs(a - d) > 30000 \/ Abs(b) > 15000
    THEN ISqrt(((a - d) \div Scale) * ((a - d) \div Scale)
               + 4 * (b \div Scale) * (b \div Scale)) * Scale
    ELSE ISqrt((a - d) * (a - d) + 4 * b * b)

\* the self-adjoint matrix the decomposition reads: the lower triangle of m
SelfAdjoint(m, w) ==
    [k \in 1..(w * w) |->
        LET i == ((k - 1) % w) + 1
            j == ((k - 1) \div w) + 1
        IN  IF i >= j THEN At(m, w, i, j) ELSE At(m, w, j, i)]

\* eigenvalues of a symmetric matrix, ascending
Eigenvalues(m, w) ==
    IF w = 0 THEN << >>
    ELSE IF w = 1 THEN <<m[1]>>
    ELSE <<(m[1] + m[4] - EigenGap(m[1], m[2], m[4])) \div 2,
           (m[1] + m[4] + EigenGap(m[1], m[2], m[4])) \div 2>>

\* pseudo-inverse of a symmetric positive semi-definite matrix: eigenvalues
\* that are not positive are dropped
PseudoInverse(m, w) ==
    IF ~AllFinite(m) THEN [i \in 1..(w * w) |-> NaN]
    ELSE IF w = 0 THEN << >>
    ELSE IF w = 1 THEN <<IF m[1] > 0 THEN Div(Scale, m[1]) ELSE 0>>
    ELSE LET det == Sub(Mul(m[1], m[4]), Mul(m[2], m[2]))
             ev  == Eigenvalues(m, w)
         IN  IF ev[1] > 0 /\ det > 0
             THEN <<Div(m[4], det), Div(Neg(m[2]), det),
                    Div(Neg(m[2]), det), Div(m[1], det)>>
             ELSE IF ev[2] > 0
             THEN [i \in 1..4 |-> Div(SelfAdjoint(m, w)[i], Mul(ev[2], ev[2]))]
             ELSE Zeros(4)

\* largest over smallest eigenvalue; infinite for a singular matrix
ConditionNo(m, w) ==
    IF ~AllFinite(m) THEN NaN
    ELSE IF w = 0 THEN PInf
    ELSE LET ev == Eigenvalues(m, w)
             hi == ev[Len(ev)]
             lo == IF ev[1] < 0 THEN 0 ELSE ev[1]
         IN  IF hi <= 0 THEN PInf ELSE Div(hi, lo)

Diagonal(m, w) == [i \in 1..w |-> At(m, w, i, i)]
Transpose(m, w) ==
    [k \in 1..(w * w) |-> At(m, w, ((k - 1) \div w) + 1, ((k - 1) % w) + 1)]
\* a * b for w x w matrices
MatMul(a, b, w) ==
    [k \in 1..(w * w) |->
        dot([l \in 1..w |-> At(a, w, ((k - 1) % w) + 1, l)],
            [l \in 1..w |-> At(b, w, l, ((k - 1) \div w) + 1)])]
\* m * v for a w x w matrix
MatVec(m, w, v) ==
    [i \in 1..w |-> dot([j \in 1..w |-> At(m, w, i, j)], v)]

\* ------------------------------------------------------------------------
\* rows and handler outcomes
\* ------------------------------------------------------------------------
\* A row: the boolean label args[1], x.size() and the features x.  A row
\* wider than UInt16Max is never read, so its features are not spelled out.
Row(lbl, feats) == [y |-> lbl, n |-> Len(feats), x |-> feats]
WideRow == [y |-> TRUE, n |-> UInt16Max + 1, x |-> << >>]
NoRow == [y |-> FALSE, n |-> 0, x |-> << >>]
\* double y = args[1].getAs<bool>() ? 1. : -1.
LabelOf(row) == IF row.y THEN Scale ELSE -Scale

\* the outcome of operator+= or of a merge handler
Merged(st) == [threw |-> FALSE, st |-> st]
\* throw std::logic_error("Internal error: Incompatible transition states")
Incompatible == [threw |-> TRUE, st |-> Null]

\* the tuple stateToResult builds (p-values and odds ratios, which come from
\* the probability library and std::exp, are not carried)
NoTuple == [coef |-> << >>, logLikelihood |-> 0, stdErr |-> << >>,
            waldZStats |-> << >>, conditionNo |-> 0, status |-> 0]

\* ------------------------------------------------------------------------
\* LogRegrCGTransitionState
\* ------------------------------------------------------------------------
CGArraySize(inWidthOfX) == 6 + inWidthOfX * inWidthOfX + 4 * inWidthOfX

\* offsets of the fields in mStorage
CGRebind(inWidthOfX) ==
    [iteration     |-> 0,
     widthOfX      |-> 1,
     coef          |-> 2,
     dir           |-> 2 + inWidthOfX,
     grad          |-> 2 + 2 * inWidthOfX,
     beta          |-> 2 + 3 * inWidthOfX,
     numRows       |-> 3 + 3 * inWidthOfX,
     gradNew       |-> 4 + 3 * inWidthOfX,
     X_transp_AX   |-> 4 + 4 * inWidthOfX,
     logLikelihood |-> 4 + inWidthOfX * inWidthOfX + 4 * inWidthOfX,
     status        |-> 5 + inWidthOfX * inWidthOfX + 4 * inWidthOfX]

\* the width the constructor binds the views with
CGBound(st) == ToUInt16(Slot(st, 1))

\* the fields of a state as the views bound with width w show them
CGView(st, w) ==
    [iteration     |-> Slot(st, CGRebind(w).iteration),
     widthOfX      |-> Slot(st, CGRebind(w).widthOfX),
     coef          |-> Vec(st, CGRebind(w).coef, w),
     dir           |-> Vec(st, CGRebind(w).dir, w),
     grad          |-> Vec(st, CGRebind(w).grad, w),
     beta          |-> Slot(st, CGRebind(w).beta),
     numRows       |-> Slot(st, CGRebind(w).numRows),
     gradNew       |-> Vec(st, CGRebind(w).gradNew, w),
     X_transp_AX   |-> Vec(st, CGRebind(w).X_transp_AX, w * w),
     logLikelihood |-> Slot(st, CGRebind(w).logLikelihood),
     status        |-> Slot(st, CGRebind(w).status)]

CGState(st) == CGView(st, CGBound(st))

\* initialize without the line widthOfX = inWidthOfX
CGInitializeZeroFilled(inWidthOfX) ==
    Zeros(CGArraySize(inWidthOfX))

CGInitialize(inWidthOfX) ==
    Put1(Zeros(CGArraySize(inWidthOfX)), CGRebind(inWidthOfX).widthOfX, inWidthOfX)

\* operator=: copies mStorage.size() elements of the other array
CGAssign(st, other) == [i \in 1..Len(st) |-> other[i]]

\* reset() without the line status = IN_PROCESS
CGResetKeepsStatus(st, w) ==
    LET s1 == Put1(st, CGRebind(w).numRows, 0)
        s2 == Put(s1, CGRebind(w).X_transp_AX, Zeros(w * w))
        s3 == Put(s2, CGRebind(w).gradNew, Zeros(w))
    IN  Put1(s3, CGRebind(w).logLikelihood, 0)

CGReset(st, w) ==
    LET s1 == Put1(st, CGRebind(w).numRows, 0)
        s2 == Put(s1, CGRebind(w).X_transp_AX, Zeros(w * w))
        s3 == Put(s2, CGRebind(w).gradNew, Zeros(w))
        s4 == Put1(s3, CGRebind(w).logLikelihood, 0)
    IN  Put1(s4, CGRebind(w).status, IN_PROCESS)

\* operator+= without the line gradNew += inOtherState.gradNew
CGPlusEqDropsGradNew(st, other) ==
    LET w == CGBound(st)
        a == CGView(st, w)
        b == CGState(other)
    IN  IF Len(st) # Len(other) \/ a.widthOfX # b.widthOfX
        THEN Incompatible
        ELSE Merged(
               Put1(Put(Put1(st,
                 CGRebind(w).numRows, a.numRows + b.numRows),
                 CGRebind(w).X_transp_AX, VAdd(a.X_transp_AX, b.X_transp_AX)),
                 CGRebind(w).logLikelihood, Add(a.logLikelihood, b.logLikelihood)))

\* operator+=, lines 113-121: the compatibility check and the sums
CGPlusEqNoStatus(st, other) ==
    LET w == CGBound(st)
        a == CGView(st, w)
        b == CGState(other)
    IN  IF Len(st) # Len(other) \/ a.widthOfX # b.widthOfX
        THEN Incompatible
        ELSE Merged(
               Put1(Put(Put(Put1(st,
                 CGRebind(w).numRows, a.numRows + b.numRows),
                 CGRebind(w).gradNew, VAdd(a.gradNew, b.gradNew)),
                 CGRebind(w).X_transp_AX, VAdd(a.X_transp_AX, b.X_transp_AX)),
                 CGRebind(w).logLikelihood, Add(a.logLikelihood, b.logLikelihood)))

CGPlusEq(st, other) ==
    LET r == CGPlusEqNoStatus(st, other)
        a == CGState(st)
        b == CGState(other)
    IN  IF r.threw THEN r
        ELSE Merged(Put1(r.st, CGRebind(CGBound(st)).status,
                         IF b.status > a.status THEN b.status ELSE a.status))

\* the transition step with a gradient step on coef for every row, as the
\* incremental-gradient variant does
CGAccumulateStepsCoef(st, w, row) ==
    LET s  == CGView(st, w)
        y  == LabelOf(row)
        xc == dot(row.x, s.coef)
        g  == Mul(sigma(Mul(Neg(y), xc)), y)
        a  == Mul(sigma(xc), sigma(Neg(xc)))
        s0 == Put(st, CGRebind(w).coef, VAdd(s.coef, VScale(g, row.x)))
        s1 == Put1(s0, CGRebind(w).numRows, s.numRows + 1)
        s2 == Put(s1, CGRebind(w).gradNew, VAdd(s.gradNew, VScale(g, row.x)))
        s3 == Put(s2, CGRebind(w).X_transp_AX,
                  VAdd(s.X_transp_AX, OuterScaled(row.x, a)))
    IN  Put1(s3, CGRebind(w).logLikelihood,
             Sub(s.logLikelihood, Log1pExp(Mul(Neg(y), xc))))

\* the transition step proper, lines 243-258, on views bound with width w
CGAccumulate(st, w, row) ==
    LET s  == CGView(st, w)
        y  == LabelOf(row)
        xc == dot(row.x, s.coef)
        g  == Mul(sigma(Mul(Neg(y), xc)), y)
        a  == Mul(sigma(xc), sigma(Neg(xc)))
        s1 == Put1(st, CGRebind(w).numRows, s.numRows + 1)
        s2 == Put(s1, CGRebind(w).gradNew, VAdd(s.gradNew, VScale(g, row.x)))
        s3 == Put(s2, CGRebind(w).X_transp_AX,
                  VAdd(s.X_transp_AX, OuterScaled(row.x, a)))
    IN  Put1(s3, CGRebind(w).logLikelihood,
             Sub(s.logLikelihood, Log1pExp(Mul(Neg(y), xc))))

\* the transition without the check of x.size(): the width is cast to
\* uint16_t and the row is accumulated
CGTransitionWithoutWidthCheck(st, row, previousState) ==
    IF CGState(st).numRows = 0
    THEN CGAccumulate(
           IF previousState # Null
           THEN CGReset(CGAssign(CGInitialize(ToUInt16(row.n)), previousState),
                        ToUInt16(row.n))
           ELSE CGInitialize(ToUInt16(row.n)),
           ToUInt16(row.n), row)
    ELSE CGAccumulate(st, CGBound(st), row)

\* logregr_cg_step_transition::run(state, y, x, previousState)
CGTransition(st, row, previousState) ==
    IF CGState(st).numRows = 0
    THEN IF row.n > UInt16Max
         THEN Put1(st, CGRebind(CGBound(st)).status, TERMINATED)
         ELSE CGAccumulate(
                IF previousState # Null
                THEN CGReset(CGAssign(CGInitialize(row.n), previousState), row.n)
                ELSE CGInitialize(row.n),
                row.n, row)
    ELSE CGAccumulate(st, CGBound(st), row)

\* logregr_cg_step_merge_states::run(stateLeft, stateRight)
CGMergeStates(stateLeft, stateRight) ==
    IF CGState(stateLeft).numRows = 0 THEN Merged(stateRight)
    ELSE IF CGState(stateRight).numRows = 0 THEN Merged(stateLeft)
    ELSE CGPlusEq(stateLeft, stateRight)

\* the direction update with the line state.grad = state.gradNew of
\* iteration 0 left out
CGDirectionKeepsGrad(s) ==
    IF s.iteration = 0
    THEN [dir |-> s.gradNew, grad |-> s.grad, beta |-> s.beta]
    ELSE LET gradNewMinusGrad == VSub(s.gradNew, s.grad)
             hs == Div(dot(s.gradNew, gradNewMinusGrad),
                       dot(s.dir, gradNewMinusGrad))
             beta == IF Le(Div(dot(s.gradNew, gradNewMinusGrad),
                               dot(s.grad, s.grad)), 0)
                     THEN 0 ELSE hs
         IN  [dir  |-> VSub(s.gradNew, VScale(beta, s.dir)),
              grad |-> s.gradNew,
              beta |-> beta]

\* the direction update of the final step, lines 300-335
CGDirection(s) ==
    IF s.iteration = 0
    THEN [dir |-> s.gradNew, grad |-> s.gradNew, beta |-> s.beta]
    ELSE LET gradNewMinusGrad == VSub(s.gradNew, s.grad)
             hs == Div(dot(s.gradNew, gradNewMinusGrad),
                       dot(s.dir, gradNewMinusGrad))
             \* std::numeric_limits<double>::denorm_min() is below one unit
             beta == IF Le(Div(dot(s.gradNew, gradNewMinusGrad),
                               dot(s.grad, s.grad)), 0)
                     THEN 0 ELSE hs
         IN  [dir  |-> VSub(s.gradNew, VScale(beta, s.dir)),
              grad |-> s.gradNew,
              beta |-> beta]

\* the final step without the check of numRows
CGFinalWithoutRowCheck(st) ==
    LET w == CGBound(st)
        s == CGView(st, w)
        d == CGDirection(s)
        alpha == Div(dot(d.grad, d.dir), Quad(d.dir, s.X_transp_AX))
        s1 == Put(st, CGRebind(w).dir, d.dir)
        s2 == Put(s1, CGRebind(w).grad, d.grad)
        s3 == Put1(s2, CGRebind(w).beta, d.beta)
        s4 == Put(s3, CGRebind(w).coef, VAdd(s.coef, VScale(alpha, d.dir)))
    IN  Put1(s4, CGRebind(w).iteration, s.iteration + 1)

\* logregr_cg_step_final::run(state): Null, or the state of the next iterate
CGFinal(st) ==
    LET w == CGBound(st)
        s == CGView(st, w)
        d == CGDirection(s)
        alpha == Div(dot(d.grad, d.dir), Quad(d.dir, s.X_transp_AX))
        s1 == Put(st, CGRebind(w).dir, d.dir)
        s2 == Put(s1, CGRebind(w).grad, d.grad)
        s3 == Put1(s2, CGRebind(w).beta, d.beta)
        s4 == Put(s3, CGRebind(w).coef, VAdd(s.coef, VScale(alpha, d.dir)))
    IN  IF s.numRows = 0 THEN Null
        ELSE Put1(s4, CGRebind(w).iteration, s.iteration + 1)


\* stateToResult(coef, diagonal, logLikelihood, conditionNo, status)
stateToResult(inCoef, diagonal_of_inverse_of_X_transp_AX, logLikelihood, conditionNo, status) ==
    LET stdErr == [i \in 1..Len(inCoef) |->
                      Sqrt(diagonal_of_inverse_of_X_transp_AX[i])]
    IN  [coef          |-> inCoef,
         logLikelihood |-> logLikelihood,
         stdErr        |-> stdErr,
         waldZStats    |-> [i \in 1..Len(inCoef) |-> Div(inCoef[i], stdErr[i])],
         conditionNo   |-> conditionNo,
         status        |-> status]

\* internal_logregr_cg_result::run(state)
CGResult(st) ==
    LET w == CGBound(st)
        s == CGView(st, w)
    IN  stateToResult(s.coef, Diagonal(PseudoInverse(s.X_transp_AX, w), w),
                      s.logLikelihood, ConditionNo(s.X_transp_AX, w), s.status)

\* the distance without std::abs
CGDistanceSigned(stateLeft, stateRight) ==
    Sub(CGState(stateLeft).logLikelihood, CGState(stateRight).logLikelihood)

\* internal_logregr_cg_step_distance::run(stateLeft, stateRight)
CGDistance(stateLeft, stateRight) ==
    Abs(Sub(CGState(stateLeft).logLikelihood, CGState(stateRight).logLikelihood))

\* ------------------------------------------------------------------------
\* LogRegrIRLSTransitionState
\* ------------------------------------------------------------------------
IRLSArraySize(inWidthOfX) == 4 + inWidthOfX * inWidthOfX + 2 * inWidthOfX

IRLSRebind(inWidthOfX) ==
    [widthOfX      |-> 0,
     coef          |-> 1,
     numRows       |-> 1 + inWidthOfX,
     X_transp_Az   |-> 2 + inWidthOfX,
     X_transp_AX   |-> 2 + 2 * inWidthOfX,
     logLikelihood |-> 2 + inWidthOfX * inWidthOfX + 2 * inWidthOfX,
     status        |-> 3 + inWidthOfX * inWidthOfX + 2 * inWidthOfX]

IRLSBound(st) == ToUInt16(Slot(st, 0))

IRLSView(st, w) ==
    [widthOfX      |-> Slot(st, IRLSRebind(w).widthOfX),
     coef          |-> Vec(st, IRLSRebind(w).coef, w),
     numRows       |-> Slot(st, IRLSRebind(w).numRows),
     X_transp_Az   |-> Vec(st, IRLSRebind(w).X_transp_Az, w),
     X_transp_AX   |-> Vec(st, IRLSRebind(w).X_transp_AX, w * w),
     logLikelihood |-> Slot(st, IRLSRebind(w).logLikelihood),
     status        |-> Slot(st, IRLSRebind(w).status)]

IRLSState(st) == IRLSView(st, IRLSBound(st))

IRLSInitialize(inWidthOfX) ==
    Put1(Zeros(IRLSArraySize(inWidthOfX)), IRLSRebind(inWidthOfX).widthOfX,
         inWidthOfX)

IRLSAssign(st, other) == [i \in 1..Len(st) |-> other[i]]

\* reset() without the line X_transp_Az.fill(0)
IRLSResetKeepsX_transp_Az(st, w) ==
    LET s1 == Put1(st, IRLSRebind(w).numRows, 0)
        s3 == Put(s1, IRLSRebind(w).X_transp_AX, Zeros(w * w))
        s4 == Put1(s3, IRLSRebind(w).logLikelihood, 0)
    IN  Put1(s4, IRLSRebind(w).status, IN_PROCESS)

IRLSReset(st, w) ==
    LET s1 == Put1(st, IRLSRebind(w).numRows, 0)
        s2 == Put(s1, IRLSRebind(w).X_transp_Az, Zeros(w))
        s3 == Put(s2, IRLSRebind(w).X_transp_AX, Zeros(w * w))
        s4 == Put1(s3, IRLSRebind(w).logLikelihood, 0)
    IN  Put1(s4, IRLSRebind(w).status, IN_PROCESS)

IRLSPlusEq(st, other) ==
    LET w == IRLSBound(st)
        a == IRLSView(st, w)
        b == IRLSState(other)
    IN  IF Len(st) # Len(other) \/ a.widthOfX # b.widthOfX
        THEN Incompatible
        ELSE Merged(
               Put1(Put1(Put(Put(Put1(st,
                 IRLSRebind(w).numRows, a.numRows + b.numRows),
                 IRLSRebind(w).X_transp_Az, VAdd(a.X_transp_Az, b.X_transp_Az)),
                 IRLSRebind(w).X_transp_AX, VAdd(a.X_transp_AX, b.X_transp_AX)),
                 IRLSRebind(w).logLikelihood,
                 Add(a.logLikelihood, b.logLikelihood)),
                 IRLSRebind(w).status,
                 IF b.status > a.status THEN b.status ELSE a.status))

\* the transition step proper, lines 573-600, on views bound with width w
IRLSAccumulate(st, w, row) ==
    LET s  == IRLSView(st, w)
        y  == LabelOf(row)
        xc == dot(row.x, s.coef)
        a  == Mul(sigma(xc), sigma(Neg(xc)))
        az == Add(Mul(xc, a), Mul(sigma(Mul(Neg(y), xc)), y))
        s1 == Put1(st, IRLSRebind(w).numRows, s.numRows + 1)
        s2 == Put(s1, IRLSRebind(w).X_transp_Az,
                  VAdd(s.X_transp_Az, VScale(az, row.x)))
        s3 == Put(s2, IRLSRebind(w).X_transp_AX,
                  VAdd(s.X_transp_AX, OuterScaled(row.x, a)))
    IN  Put1(s3, IRLSRebind(w).logLikelihood,
             Sub(s.logLikelihood, Log1pExp(Mul(Neg(y), xc))))

\* logregr_irls_step_transition::run(state, y, x, previousState)
IRLSTransition(st, row, previousState) ==
    IF IRLSState(st).numRows = 0
    THEN IF row.n > UInt16Max
         THEN Put1(st, IRLSRebind(IRLSBound(st)).status, TERMINATED)
         ELSE IRLSAccumulate(
                IF previousState # Null
                THEN IRLSReset(IRLSAssign(IRLSInitialize(row.n), previousState),
                               row.n)
                ELSE IRLSInitialize(row.n),
                row.n, row)
    ELSE IRLSAccumulate(st, IRLSBound(st), row)

\* logregr_irls_step_merge_states::run(stateLeft, stateRight)
IRLSMergeStates(stateLeft, stateRight) ==
    IF IRLSState(stateLeft).numRows = 0 THEN Merged(stateRight)
    ELSE IF IRLSState(stateRight).numRows = 0 THEN Merged(stateLeft)
    ELSE IRLSPlusEq(stateLeft, stateRight)

\* logregr_irls_step_final::run(state).  X_transp_AX(0,0) is element 0 of the
\* matrix view, which for widthOfX = 0 is the slot of logLikelihood.
IRLSFinal(st) ==
    LET w == IRLSBound(st)
        s == IRLSView(st, w)
        inverse_of_X_transp_AX == PseudoInverse(s.X_transp_AX, w)
        s1 == Put(st, IRLSRebind(w).coef,
                  MatVec(inverse_of_X_transp_AX, w, s.X_transp_Az))
        s2 == Put(s1, IRLSRebind(w).X_transp_Az,
                  Diagonal(inverse_of_X_transp_AX, w))
    IN  IF s.numRows = 0 THEN Null
        ELSE Put1(s2, IRLSRebind(w).X_transp_AX, ConditionNo(s.X_transp_AX, w))

\* internal_logregr_irls_result::run(state)
IRLSResult(st) ==
    LET w == IRLSBound(st)
        s == IRLSView(st, w)
    IN  stateToResult(s.coef, s.X_transp_Az, s.logLikelihood,
                      Slot(st, IRLSRebind(w).X_transp_AX), s.status)

\* internal_logregr_irls_step_distance::run(stateLeft, stateRight)
IRLSDistance(stateLeft, stateRight) ==
    Abs(Sub(IRLSState(stateLeft).logLikelihood,
            IRLSState(stateRight).logLikelihood))


\* ------------------------------------------------------------------------
\* LogRegrIGDTransitionState
\* ------------------------------------------------------------------------
IGDArraySize(inWidthOfX) == 5 + inWidthOfX * inWidthOfX + inWidthOfX

IGDRebind(inWidthOfX) ==
    [widthOfX      |-> 0,
     stepsize      |-> 1,
     coef          |-> 2,
     numRows       |-> 2 + inWidthOfX,
     X_transp_AX   |-> 3 + inWidthOfX,
     logLikelihood |-> 3 + inWidthOfX * inWidthOfX + inWidthOfX,
     status        |-> 4 + inWidthOfX * inWidthOfX + inWidthOfX]

IGDBound(st) == ToUInt16(Slot(st, 0))

IGDView(st, w) ==
    [widthOfX      |-> Slot(st, IGDRebind(w).widthOfX),
     stepsize      |-> Slot(st, IGDRebind(w).stepsize),
     coef          |-> Vec(st, IGDRebind(w).coef, w),
     numRows       |-> Slot(st, IGDRebind(w).numRows),
     X_transp_AX   |-> Vec(st, IGDRebind(w).X_transp_AX, w * w),
     logLikelihood |-> Slot(st, IGDRebind(w).logLikelihood),
     status        |-> Slot(st, IGDRebind(w).status)]

IGDState(st) == IGDView(st, IGDBound(st))

IGDInitialize(inWidthOfX) ==
    Put1(Zeros(IGDArraySize(inWidthOfX)), IGDRebind(inWidthOfX).widthOfX,
         inWidthOfX)

IGDAssign(st, other) == [i \in 1..Len(st) |-> other[i]]

\* stepsize = .01
IGDStepsize == Scale \div 100
\* state.coef[i] = 0.1
IGDFirstCoef == Scale \div 10

IGDReset(st, w) ==
    LET s0 == Put1(st, IGDRebind(w).stepsize, IGDStepsize)
        s1 == Put1(s0, IGDRebind(w).numRows, 0)
        s2 == Put(s1, IGDRebind(w).X_transp_AX, Zeros(w * w))
        s3 == Put1(s2, IGDRebind(w).logLikelihood, 0)
    IN  Put1(s3, IGDRebind(w).status, IN_PROCESS)

\* operator+= that returns *this instead of throwing on incompatible states
IGDPlusEqTolerant(st, other) ==
    LET w == IGDBound(st)
        a == IGDView(st, w)
        b == IGDState(other)
        totalNumRows == Add(ToDouble(a.numRows), ToDouble(b.numRows))
    IN  IF Len(st) # Len(other) \/ a.widthOfX # b.widthOfX
        THEN Merged(st)
        ELSE Merged(
               Put1(Put1(Put(Put1(Put(st,
                 IGDRebind(w).coef,
                 VAdd(VScale(Div(ToDouble(a.numRows), totalNumRows), a.coef),
                      VScale(Div(ToDouble(b.numRows), totalNumRows), b.coef))),
                 IGDRebind(w).numRows, a.numRows + b.numRows),
                 IGDRebind(w).X_transp_AX, VAdd(a.X_transp_AX, b.X_transp_AX)),
                 IGDRebind(w).logLikelihood,
                 Add(a.logLikelihood, b.logLikelihood)),
                 IGDRebind(w).status,
                 IF b.status = TERMINATED THEN b.status ELSE a.status))

\* operator+= that averages the two models with equal weights
IGDPlusEqUnweighted(st, other) ==
    LET w == IGDBound(st)
        a == IGDView(st, w)
        b == IGDState(other)
    IN  IF Len(st) # Len(other) \/ a.widthOfX # b.widthOfX
        THEN Incompatible
        ELSE Merged(
               Put1(Put1(Put(Put1(Put(st,
                 IGDRebind(w).coef,
                 VAdd(VScale(Scale \div 2, a.coef),
                      VScale(Scale \div 2, b.coef))),
                 IGDRebind(w).numRows, a.numRows + b.numRows),
                 IGDRebind(w).X_transp_AX, VAdd(a.X_transp_AX, b.X_transp_AX)),
                 IGDRebind(w).logLikelihood,
                 Add(a.logLikelihood, b.logLikelihood)),
                 IGDRebind(w).status,
                 IF b.status = TERMINATED THEN b.status ELSE a.status))

\* operator+= that keeps the more severe status, as the CG and IRLS states do
IGDPlusEqHigherStatus(st, other) ==
    LET w == IGDBound(st)
        a == IGDView(st, w)
        b == IGDState(other)
        totalNumRows == Add(ToDouble(a.numRows), ToDouble(b.numRows))
    IN  IF Len(st) # Len(other) \/ a.widthOfX # b.widthOfX
        THEN Incompatible
        ELSE Merged(
               Put1(Put1(Put(Put1(Put(st,
                 IGDRebind(w).coef,
                 VAdd(VScale(Div(ToDouble(a.numRows), totalNumRows), a.coef),
                      VScale(Div(ToDouble(b.numRows), totalNumRows), b.coef))),
                 IGDRebind(w).numRows, a.numRows + b.numRows),
                 IGDRebind(w).X_transp_AX, VAdd(a.X_transp_AX, b.X_transp_AX)),
                 IGDRebind(w).logLikelihood,
                 Add(a.logLikelihood, b.logLikelihood)),
                 IGDRebind(w).status,
                 IF b.status > a.status THEN b.status ELSE a.status))

IGDPlusEq(st, other) ==
    LET w == IGDBound(st)
        a == IGDView(st, w)
        b == IGDState(other)
        totalNumRows == Add(ToDouble(a.numRows), ToDouble(b.numRows))
    IN  IF Len(st) # Len(other) \/ a.widthOfX # b.widthOfX
        THEN Incompatible
        ELSE Merged(
               Put1(Put1(Put(Put1(Put(st,
                 IGDRebind(w).coef,
                 VAdd(VScale(Div(ToDouble(a.numRows), totalNumRows), a.coef),
                      VScale(Div(ToDouble(b.numRows), totalNumRows), b.coef))),
                 IGDRebind(w).numRows, a.numRows + b.numRows),
                 IGDRebind(w).X_transp_AX, VAdd(a.X_transp_AX, b.X_transp_AX)),
                 IGDRebind(w).logLikelihood,
                 Add(a.logLikelihood, b.logLikelihood)),
                 IGDRebind(w).status,
                 IF b.status = TERMINATED THEN b.status ELSE a.status))

\* the transition step with the compiled-out update of logLikelihood,
\* lines 933-947, put back (on the coef of the state)
IGDAccumulateWithLogLikelihood(st, w, row) ==
    LET s     == IGDView(st, w)
        y     == LabelOf(row)
        xc    == dot(row.x, s.coef)
        scale == Mul(Mul(s.stepsize, sigma(Mul(Neg(xc), y))), y)
        s1    == Put1(st, IGDRebind(w).numRows, s.numRows + 1)
        s2    == Put1(s1, IGDRebind(w).logLikelihood,
                      Sub(s.logLikelihood, Log1pExp(Mul(Neg(y), xc))))
    IN  Put(s2, IGDRebind(w).coef, VAdd(s.coef, VScale(scale, row.x)))

\* the transition step proper, lines 915-929, on views bound with width w
IGDAccumulate(st, w, row) ==
    LET s     == IGDView(st, w)
        y     == LabelOf(row)
        xc    == dot(row.x, s.coef)
        scale == Mul(Mul(s.stepsize, sigma(Mul(Neg(xc), y))), y)
        s1    == Put1(st, IGDRebind(w).numRows, s.numRows + 1)
    IN  Put(s1, IGDRebind(w).coef, VAdd(s.coef, VScale(scale, row.x)))

\* logregr_igd_step_transition::run(state, y, x, previousState)
IGDTransition(st, row, previousState) ==
    IF IGDState(st).numRows = 0
    THEN IF row.n > UInt16Max
         THEN Put1(st, IGDRebind(IGDBound(st)).status, TERMINATED)
         ELSE IGDAccumulate(
                IF previousState # Null
                THEN IGDReset(IGDAssign(IGDInitialize(row.n), previousState),
                              row.n)
                ELSE Put(IGDReset(IGDInitialize(row.n), row.n),
                         IGDRebind(row.n).coef,
                         [i \in 1..row.n |-> IGDFirstCoef]),
                row.n, row)
    ELSE IGDAccumulate(st, IGDBound(st), row)

\* logregr_igd_step_merge_states::run(stateLeft, stateRight)
IGDMergeStates(stateLeft, stateRight) ==
    IF IGDState(stateLeft).numRows = 0 THEN Merged(stateRight)
    ELSE IF IGDState(stateRight).numRows = 0 THEN Merged(stateLeft)
    ELSE IGDPlusEq(stateLeft, stateRight)

\* final with the compiled-out finiteness check put back, marking the
\* returned state TERMINATED when a coefficient is not finite, and marking it
\* COMPLETED otherwise
IGDFinalSetsStatus(st) ==
    IF IGDState(st).numRows = 0 THEN Null
    ELSE Put1(st, IGDRebind(IGDBound(st)).status,
              IF AllFinite(IGDState(st).coef) THEN COMPLETED ELSE TERMINATED)

\* logregr_igd_step_final::run(state)
IGDFinal(st) == IF IGDState(st).numRows = 0 THEN Null ELSE st

\* internal_logregr_igd_result::run(state)
IGDResult(st) ==
    LET w == IGDBound(st)
        s == IGDView(st, w)
    IN  stateToResult(s.coef, Diagonal(PseudoInverse(s.X_transp_AX, w), w),
                      s.logLikelihood, ConditionNo(s.X_transp_AX, w), s.status)

\* internal_logregr_igd_step_distance::run(stateLeft, stateRight)
IGDDistance(stateLeft, stateRight) ==
    Abs(Sub(IGDState(stateLeft).logLikelihood,
            IGDState(stateRight).logLikelihood))


\* ------------------------------------------------------------------------
\* RobustLogRegrTransitionState
\* ------------------------------------------------------------------------
RobustArraySize(inWidthOfX) == 4 + 2 * inWidthOfX * inWidthOfX + inWidthOfX

RobustRebind(inWidthOfX) ==
    [iteration   |-> 0,
     widthOfX    |-> 1,
     coef        |-> 2,
     numRows     |-> 2 + inWidthOfX,
     X_transp_AX |-> 3 + inWidthOfX,
     meat        |-> 3 + inWidthOfX * inWidthOfX + inWidthOfX]

RobustBound(st) == ToUInt16(Slot(st, 1))

RobustView(st, w) ==
    [iteration   |-> Slot(st, RobustRebind(w).iteration),
     widthOfX    |-> Slot(st, RobustRebind(w).widthOfX),
     coef        |-> Vec(st, RobustRebind(w).coef, w),
     numRows     |-> Slot(st, RobustRebind(w).numRows),
     X_transp_AX |-> Vec(st, RobustRebind(w).X_transp_AX, w * w),
     meat        |-> Vec(st, RobustRebind(w).meat, w * w)]

RobustState(st) == RobustView(st, RobustBound(st))

\* initialize(inWidthOfX): a zero-filled array with widthOfX set
RobustInitialize(inWidthOfX) ==
    Put1(Zeros(RobustArraySize(inWidthOfX)), RobustRebind(inWidthOfX).widthOfX,
         inWidthOfX)

\* operator+= without the line numRows += inOtherState.numRows
RobustPlusEqDropsNumRows(st, other) ==
    LET w == RobustBound(st)
        a == RobustView(st, w)
        b == RobustState(other)
    IN  IF Len(st) # Len(other) \/ a.widthOfX # b.widthOfX
        THEN Incompatible
        ELSE Merged(
               Put(Put(st,
                 RobustRebind(w).X_transp_AX, VAdd(a.X_transp_AX, b.X_transp_AX)),
                 RobustRebind(w).meat, VAdd(a.meat, b.meat)))

RobustPlusEq(st, other) ==
    LET w == RobustBound(st)
        a == RobustView(st, w)
        b == RobustState(other)
    IN  IF Len(st) # Len(other) \/ a.widthOfX # b.widthOfX
        THEN Incompatible
        ELSE Merged(
               Put(Put(Put1(st,
                 RobustRebind(w).numRows, a.numRows + b.numRows),
                 RobustRebind(w).X_transp_AX, VAdd(a.X_transp_AX, b.X_transp_AX)),
                 RobustRebind(w).meat, VAdd(a.meat, b.meat)))

\* x * trans(x) * a added below the diagonal only
StrictLowerOuterScaled(m, x, a) ==
    [k \in 1..(Len(x) * Len(x)) |->
        IF ((k - 1) % Len(x)) > ((k - 1) \div Len(x))
        THEN Add(m[k], OuterScaled(x, a)[k]) ELSE m[k]]

\* x * trans(x) * a added to the lower triangle only
LowerOuterScaled(m, x, a) ==
    [k \in 1..(Len(x) * Len(x)) |->
        IF ((k - 1) % Len(x)) >= ((k - 1) \div Len(x))
        THEN Add(m[k], OuterScaled(x, a)[k]) ELSE m[k]]

\* robust_logregr_step_transition::run(state, y, x, coef)
RobustTransition(st, row, coef) ==
    LET w    == RobustBound(st)
        s    == RobustView(st, w)
        y    == LabelOf(row)
        xc   == dot(row.x, coef)
        Grad == VScale(Mul(sigma(Mul(Neg(y), xc)), y), row.x)
        a    == Mul(sigma(xc), sigma(Neg(xc)))
        s1   == Put1(st, RobustRebind(w).numRows, s.numRows + 1)
        s2   == Put(s1, RobustRebind(w).meat,
                    VAdd(s.meat,
                         [k \in 1..(w * w) |->
                             Mul(Grad[((k - 1) % w) + 1], Grad[((k - 1) \div w) + 1])]))
    IN  Put(s2, RobustRebind(w).X_transp_AX,
            LowerOuterScaled(s.X_transp_AX, row.x, a))

\* robust_logregr_step_merge_states::run(stateLeft, stateRight)
RobustMergeStates(stateLeft, stateRight) ==
    IF RobustState(stateLeft).numRows = 0 THEN Merged(stateRight)
    ELSE IF RobustState(stateRight).numRows = 0 THEN Merged(stateLeft)
    ELSE RobustPlusEq(stateLeft, stateRight)

\* robuststateToResult(coef, diagonal of the variance matrix)
robuststateToResult(inCoef, diagonal_of_varianceMat) ==
    LET stdErr == [i \in 1..Len(inCoef) |-> Sqrt(diagonal_of_varianceMat[i])]
    IN  [coef       |-> inCoef,
         stdErr     |-> stdErr,
         waldZStats |-> [i \in 1..Len(inCoef) |-> Div(inCoef[i], stdErr[i])]]

\* robust_logregr_step_final::run(state): Null, or the result tuple
RobustFinal(st) ==
    LET w     == RobustBound(st)
        s     == RobustView(st, w)
        bread == PseudoInverse(s.X_transp_AX, w)
        varianceMat == MatMul(MatMul(bread, s.meat, w), bread, w)
    IN  IF s.numRows = 0 THEN Null
        ELSE robuststateToResult(s.coef, Diagonal(varianceMat, w))

\* ------------------------------------------------------------------------
\* MarginalLogRegrTransitionState
\* ------------------------------------------------------------------------
MarginalArraySize(inWidthOfX) == 4 + 1 * inWidthOfX * inWidthOfX + 2 * inWidthOfX

MarginalRebind(inWidthOfX) ==
    [iteration   |-> 0,
     widthOfX    |-> 1,
     coef        |-> 2,
     numRows     |-> 2 + inWidthOfX,
     marginal_effects_per_observation |-> 3 + inWidthOfX,
     X_bar       |-> 4 + inWidthOfX,
     X_transp_AX |-> 4 + 2 * inWidthOfX]

MarginalBound(st) == ToUInt16(Slot(st, 1))

MarginalView(st, w) ==
    [iteration   |-> Slot(st, MarginalRebind(w).iteration),
     widthOfX    |-> Slot(st, MarginalRebind(w).widthOfX),
     coef        |-> Vec(st, MarginalRebind(w).coef, w),
     numRows     |-> Slot(st, MarginalRebind(w).numRows),
     marginal_effects_per_observation |->
         Slot(st, MarginalRebind(w).marginal_effects_per_observation),
     X_bar       |-> Vec(st, MarginalRebind(w).X_bar, w),
     X_transp_AX |-> Vec(st, MarginalRebind(w).X_transp_AX, w * w)]

MarginalState(st) == MarginalView(st, MarginalBound(st))

\* initialize(inWidthOfX): a zero-filled array with widthOfX set
MarginalInitialize(inWidthOfX) ==
    Put1(Zeros(MarginalArraySize(inWidthOfX)),
         MarginalRebind(inWidthOfX).widthOfX, inWidthOfX)

MarginalPlusEq(st, other) ==
    LET w == MarginalBound(st)
        a == MarginalView(st, w)
        b == MarginalState(other)
    IN  IF Len(st) # Len(other) \/ a.widthOfX # b.widthOfX
        THEN Incompatible
        ELSE Merged(
               Put(Put(Put1(Put1(st,
                 MarginalRebind(w).numRows, a.numRows + b.numRows),
                 MarginalRebind(w).marginal_effects_per_observation,
                 Add(a.marginal_effects_per_observation,
                     b.marginal_effects_per_observation)),
                 MarginalRebind(w).X_bar, VAdd(a.X_bar, b.X_bar)),
                 MarginalRebind(w).X_transp_AX, VAdd(a.X_transp_AX, b.X_transp_AX)))

\* std::exp(xc) / (1 + std::exp(xc))
LogisticG(xc) == Div(Exp(xc), Add(Scale, Exp(xc)))

\* marginal_logregr_step_transition::run(state, y, x, coef)
MarginalTransition(st, row, coef) ==
    LET w    == MarginalBound(st)
        s    == MarginalView(st, w)
        xc   == dot(row.x, coef)
        G_xc == LogisticG(xc)
        a    == Mul(sigma(xc), sigma(Neg(xc)))
        s1   == Put1(st, MarginalRebind(w).numRows, s.numRows + 1)
        s2   == Put1(s1, MarginalRebind(w).marginal_effects_per_observation,
                     Add(s.marginal_effects_per_observation,
                         Mul(G_xc, Sub(Scale, G_xc))))
        s3   == Put(s2, MarginalRebind(w).X_bar, VAdd(s.X_bar, row.x))
    IN  Put(s3, MarginalRebind(w).X_transp_AX,
            VAdd(s.X_transp_AX, OuterScaled(row.x, a)))

\* marginal_logregr_step_merge_states::run(stateLeft, stateRight)
MarginalMergeStates(stateLeft, stateRight) ==
    IF MarginalState(stateLeft).numRows = 0 THEN Merged(stateRight)
    ELSE IF MarginalState(stateRight).numRows = 0 THEN Merged(stateLeft)
    ELSE MarginalPlusEq(stateLeft, stateRight)

\* marginalstateToResult with numRows >= inCoef.size() as the p-value test
marginalstateToResultAtLeast(inCoef, diagonal_of_variance_matrix, inmarginal_effects_per_observation, numRows) ==
    LET marginal_effects ==
            [i \in 1..Len(inCoef) |->
                Div(Mul(inCoef[i], inmarginal_effects_per_observation),
                    ToDouble(numRows))]
        stdErr == [i \in 1..Len(inCoef) |-> Sqrt(diagonal_of_variance_matrix[i])]
    IN  [marginal_effects |-> marginal_effects,
         coef             |-> inCoef,
         stdErr           |-> stdErr,
         tStats           |-> [i \in 1..Len(inCoef) |->
                                  Div(marginal_effects[i], stdErr[i])],
         pValuesNull      |-> ~(numRows >= Len(inCoef)),
         degreesOfFreedom |-> numRows - Len(inCoef)]

\* marginalstateToResult(coef, diagonal, marginal effects per observation,
\* numRows).  The p-values come from the Student-t distribution of the
\* probability library; the tuple carries whether they are Null and the
\* degrees of freedom they are computed with.
marginalstateToResult(inCoef, diagonal_of_variance_matrix, inmarginal_effects_per_observation, numRows) ==
    LET marginal_effects ==
            [i \in 1..Len(inCoef) |->
                Div(Mul(inCoef[i], inmarginal_effects_per_observation),
                    ToDouble(numRows))]
        stdErr == [i \in 1..Len(inCoef) |-> Sqrt(diagonal_of_variance_matrix[i])]
    IN  [marginal_effects |-> marginal_effects,
         coef             |-> inCoef,
         stdErr           |-> stdErr,
         tStats           |-> [i \in 1..Len(inCoef) |->
                                  Div(marginal_effects[i], stdErr[i])],
         pValuesNull      |-> ~(numRows > Len(inCoef)),
         degreesOfFreedom |-> numRows - Len(inCoef)]

\* marginal_logregr_step_final::run(state): Null, or the result tuple
MarginalFinal(st) ==
    LET w        == MarginalBound(st)
        s        == MarginalView(st, w)
        variance == PseudoInverse(s.X_transp_AX, w)
        xc       == Div(dot(s.coef, s.X_bar), ToDouble(s.numRows))
        p        == LogisticG(xc)
        pq       == Mul(p, Sub(Scale, p))
        delta    == [k \in 1..(w * w) |->
                       LET i == ((k - 1) % w) + 1
                           j == ((k - 1) \div w) + 1
                           d == Div(Mul(Mul(Sub(Scale, Mul(2 * Scale, p)), s.coef[i]),
                                        s.X_bar[j]),
                                    ToDouble(s.numRows))
                       IN  IF i = j /\ i <= s.widthOfX THEN Add(d, Scale) ELSE d]
        std_err  == [k \in 1..(w * w) |->
                       Mul(Mul(MatMul(MatMul([l \in 1..(w * w) |-> Mul(pq, delta[l])],
                                             variance, w),
                                      Transpose(delta, w), w)[k], p),
                           Sub(Scale, p))]
    IN  IF s.numRows = 0 THEN Null
        ELSE marginalstateToResult(s.coef, Diagonal(std_err, w),
                                   s.marginal_effects_per_observation, s.numRows)


\* ------------------------------------------------------------------------
\* the host: one aggregate call per iteration
\* ------------------------------------------------------------------------
(***************************************************************************)
(* The host scans NumParts partitions, calling the transition handler on  *)
(* each partition's own state, merges the partition states pairwise in    *)
(* any grouping and order, calls the final handler on the fully merged    *)
(* state and hands what it returns to the next iteration as previous      *)
(* state.  A handler that throws aborts the aggregate.                     *)
(*                                                                         *)
(* Eigen's operations require equal dimensions, and operator= reads as    *)
(* many elements of the previous state as the new array holds: the host   *)
(* feeds a partition that has accepted a row only rows of that width, and *)
(* passes a previous state only with rows of its width.                   *)
(***************************************************************************)
VARIABLES
    variant,     \* which aggregate runs
    part,        \* partition -> its transition state
    alive,       \* the partitions whose state has not been merged into another
    phase,       \* "scan", "merge", or "done" once final has been called
    prev,        \* previous state passed as args[3]; Null in the first iteration
    fin,         \* what the last final call returned (Null before, and for no data)
    iter,        \* number of aggregate calls started
    nfed,        \* number of rows fed in the whole run
    fed,         \* row number -> how often it was fed in this iteration
    terminated,  \* whether a transition of this iteration set status TERMINATED
    call,        \* the last handler call: its arguments and what it returned
    err          \* whether a handler threw

vars == <<variant, part, alive, phase, prev, fin, iter, nfed, fed, terminated,
          call, err>>

Parts == 1..NumParts
Variants == {"cg", "irls", "igd", "robust", "marginal"}
Optimizers == {"cg", "irls", "igd"}

\* the rows of the relation, the over-wide one first; the row with feature
\* -400 makes exp(-y * xc) overflow once coef is 2 or more
RowList ==
    <<WideRow,
      Row(TRUE, << >>),
      Row(TRUE, <<Scale>>),
      Row(FALSE, <<2 * Scale>>),
      Row(TRUE, <<-400 * Scale>>),
      Row(TRUE, <<Scale, 2 * Scale>>),
      Row(FALSE, <<2 * Scale, Scale>>)>>
RowIds == 1..Len(RowList)
\* the coefficient vectors passed to the robust and marginal transitions
CoefArgs == {<< >>, <<Scale \div 2>>, <<Scale \div 2, -Scale>>}

ArraySize(v, w) ==
    CASE v = "cg" -> CGArraySize(w)
      [] v = "irls" -> IRLSArraySize(w)
      [] v = "igd" -> IGDArraySize(w)
      [] v = "robust" -> RobustArraySize(w)
      [] v = "marginal" -> MarginalArraySize(w)

\* the zero-filled array the database creates a state from
InitialState(v) == Zeros(ArraySize(v, 0))

Bound(v, st) ==
    CASE v = "cg" -> CGBound(st)
      [] v = "irls" -> IRLSBound(st)
      [] v = "igd" -> IGDBound(st)
      [] v = "robust" -> RobustBound(st)
      [] v = "marginal" -> MarginalBound(st)

NumRows(v, st) ==
    CASE v = "cg" -> CGState(st).numRows
      [] v = "irls" -> IRLSState(st).numRows
      [] v = "igd" -> IGDState(st).numRows
      [] v = "robust" -> RobustState(st).numRows
      [] v = "marginal" -> MarginalState(st).numRows

WidthOfX(v, st) ==
    CASE v = "cg" -> CGState(st).widthOfX
      [] v = "irls" -> IRLSState(st).widthOfX
      [] v = "igd" -> IGDState(st).widthOfX
      [] v = "robust" -> RobustState(st).widthOfX
      [] v = "marginal" -> MarginalState(st).widthOfX

\* status of an optimizer state
Status(v, st) ==
    CASE v = "cg" -> CGState(st).status
      [] v = "irls" -> IRLSState(st).status
      [] v = "igd" -> IGDState(st).status

\* the rows the host may feed an optimizer partition in state st
RowFits(v, st, row) ==
    IF NumRows(v, st) > 0 THEN row.n = Bound(v, st)
    ELSE IF row.n > UInt16Max \/ prev = Null THEN TRUE
    ELSE Len(prev) = ArraySize(v, row.n) /\ Bound(v, prev) = row.n

NoCall == [op |-> "none", left |-> Null, right |-> Null, row |-> NoRow,
           coef |-> << >>, kind |-> "none", st |-> Null, tup |-> NoTuple,
           dist |-> 0, lay |-> Null]

Init ==
    /\ variant \in Variants
    /\ part = [p \in Parts |-> InitialState(variant)]
    /\ alive = Parts
    /\ phase = "scan"
    /\ prev = Null
    /\ fin = Null
    /\ iter = 1
    /\ nfed = 0
    /\ fed = [r \in RowIds |-> 0]
    /\ terminated = FALSE
    /\ call = NoCall
    /\ err = FALSE

\* the host's part of a transition call on partition p that returned newSt
Fed(p, r, coef, newSt) ==
    /\ part' = [part EXCEPT ![p] = newSt]
    /\ nfed' = nfed + 1
    /\ fed' = [fed EXCEPT ![r] = @ + 1]
    /\ call' = [NoCall EXCEPT !.op = "transition", !.left = part[p],
                              !.right = prev, !.row = RowList[r],
                              !.coef = coef, !.kind = "state", !.st = newSt]
    /\ UNCHANGED <<variant, alive, phase, prev, fin, iter, err>>

CanScan == ~err /\ phase = "scan" /\ nfed < MaxRows

CGTransitionStep(p, r) ==
    /\ variant = "cg" /\ CanScan
    /\ RowFits("cg", part[p], RowList[r])
    /\ Fed(p, r, << >>, CGTransition(part[p], RowList[r], prev))
    /\ terminated' = (terminated \/ CGState(part'[p]).status = TERMINATED)

IRLSTransitionStep(p, r) ==
    /\ variant = "irls" /\ CanScan
    /\ RowFits("irls", part[p], RowList[r])
    /\ Fed(p, r, << >>, IRLSTransition(part[p], RowList[r], prev))
    /\ terminated' = (terminated \/ IRLSState(part'[p]).status = TERMINATED)

IGDTransitionStep(p, r) ==
    /\ variant = "igd" /\ CanScan
    /\ RowFits("igd", part[p], RowList[r])
    /\ Fed(p, r, << >>, IGDTransition(part[p], RowList[r], prev))
    /\ terminated' = (terminated \/ IGDState(part'[p]).status = TERMINATED)

RobustTransitionStep(p, r, coef) ==
    /\ variant = "robust" /\ CanScan
    /\ RowList[r].n = RobustBound(part[p]) /\ Len(coef) = RowList[r].n
    /\ Fed(p, r, coef, RobustTransition(part[p], RowList[r], coef))
    /\ UNCHANGED terminated

MarginalTransitionStep(p, r, coef) ==
    /\ variant = "marginal" /\ CanScan
    /\ RowList[r].n = MarginalBound(part[p]) /\ Len(coef) = RowList[r].n
    /\ Fed(p, r, coef, MarginalTransition(part[p], RowList[r], coef))
    /\ UNCHANGED terminated

\* the host's part of a merge call on the states of partitions i and j
Combined(i, j, r) ==
    /\ call' = [NoCall EXCEPT !.op = "merge", !.left = part[i], !.right = part[j],
                              !.kind = IF r.threw THEN "error" ELSE "state",
                              !.st = r.st]
    /\ err' = r.threw
    /\ phase' = "merge"
    /\ IF r.threw
       THEN UNCHANGED <<part, alive>>
       ELSE /\ part' = [part EXCEPT ![i] = r.st]
            /\ alive' = alive \ {j}
    /\ UNCHANGED <<variant, prev, fin, iter, nfed, fed, terminated>>

CanMerge(i, j) ==
    ~err /\ phase \in {"scan", "merge"} /\ i \in alive /\ j \in alive /\ i # j

CGMergeStep(i, j) ==
    variant = "cg" /\ CanMerge(i, j)
    /\ Combined(i, j, CGMergeStates(part[i], part[j]))

IRLSMergeStep(i, j) ==
    variant = "irls" /\ CanMerge(i, j)
    /\ Combined(i, j, IRLSMergeStates(part[i], part[j]))

IGDMergeStep(i, j) ==
    variant = "igd" /\ CanMerge(i, j)
    /\ Combined(i, j, IGDMergeStates(part[i], part[j]))

RobustMergeStep(i, j) ==
    variant = "robust" /\ CanMerge(i, j)
    /\ Combined(i, j, RobustMergeStates(part[i], part[j]))

MarginalMergeStep(i, j) ==
    variant = "marginal" /\ CanMerge(i, j)
    /\ Combined(i, j, MarginalMergeStates(part[i], part[j]))

\* the fully merged state, once a single partition state is left
FullyMerged == ~err /\ phase \in {"scan", "merge"} /\ Cardinality(alive) = 1
MergedState == part[CHOOSE p \in alive : TRUE]

\* the host's part of a final call that returned a state or Null
Finalized(ret) ==
    /\ call' = [NoCall EXCEPT !.op = "final", !.left = MergedState,
                              !.kind = IF ret = Null THEN "null" ELSE "state",
                              !.st = ret]
    /\ fin' = ret
    /\ phase' = "done"
    /\ UNCHANGED <<variant, part, alive, prev, iter, nfed, fed, terminated, err>>

\* the host's part of a final call that returned a tuple or Null
Reported(ret) ==
    /\ call' = [NoCall EXCEPT !.op = "final", !.left = MergedState,
                              !.kind = IF ret = Null THEN "null" ELSE "tuple",
                              !.tup = IF ret = Null THEN NoTuple ELSE ret]
    /\ phase' = "done"
    /\ UNCHANGED <<variant, part, alive, prev, fin, iter, nfed, fed, terminated,
                   err>>

\* a handler call that ends in Eigen's index assertion
Asserted(op, st) ==
    /\ call' = [NoCall EXCEPT !.op = op, !.left = st, !.kind = "error"]
    /\ err' = TRUE
    /\ UNCHANGED <<variant, part, alive, phase, prev, fin, iter, nfed, fed,
                   terminated>>

CGFinalStep == variant = "cg" /\ FullyMerged /\ Finalized(CGFinal(MergedState))

\* X_transp_AX(0,0) of an empty matrix is out of range: the build either
\* checks the index and throws, or writes the element the view starts at
IRLSFinalStep ==
    /\ variant = "irls" /\ FullyMerged
    /\ \/ Finalized(IRLSFinal(MergedState))
       \/ /\ IRLSBound(MergedState) = 0
          /\ IRLSState(MergedState).numRows # 0
          /\ Asserted("final", MergedState)

IGDFinalStep == variant = "igd" /\ FullyMerged /\ Finalized(IGDFinal(MergedState))

RobustFinalStep ==
    variant = "robust" /\ FullyMerged /\ Reported(RobustFinal(MergedState))

MarginalFinalStep ==
    variant = "marginal" /\ FullyMerged /\ Reported(MarginalFinal(MergedState))

\* the states the host holds and can pass to the result function
Held == (IF FullyMerged THEN {MergedState} ELSE {})
          \cup (IF ~err /\ phase = "done" /\ fin # Null THEN {fin} ELSE {})

\* the host's part of a result call
Resulted(st, tup) ==
    /\ call' = [NoCall EXCEPT !.op = "result", !.left = st, !.kind = "tuple",
                              !.tup = tup]
    /\ UNCHANGED <<variant, part, alive, phase, prev, fin, iter, nfed, fed,
                   terminated, err>>

CGResultStep(st) == variant = "cg" /\ st \in Held /\ Resulted(st, CGResult(st))

IRLSResultStep(st) ==
    /\ variant = "irls" /\ st \in Held
    /\ \/ Resulted(st, IRLSResult(st))
       \/ IRLSBound(st) = 0 /\ Asserted("result", st)

IGDResultStep(st) == variant = "igd" /\ st \in Held /\ Resulted(st, IGDResult(st))

\* the states the driver compares once an iteration is finalized: the state
\* the iteration started from and the state it ended with
Compared ==
    IF ~err /\ phase = "done" THEN {prev, fin} \ {Null} ELSE {}

\* the host's part of a distance call
Measured(l, r, d) ==
    /\ call' = [NoCall EXCEPT !.op = "distance", !.left = l, !.right = r,
                              !.kind = "double", !.dist = d]
    /\ UNCHANGED <<variant, part, alive, phase, prev, fin, iter, nfed, fed,
                   terminated, err>>

CGDistanceStep(l, r) ==
    variant = "cg" /\ l \in Compared /\ r \in Compared
    /\ Measured(l, r, CGDistance(l, r))

IRLSDistanceStep(l, r) ==
    variant = "irls" /\ l \in Compared /\ r \in Compared
    /\ Measured(l, r, IRLSDistance(l, r))

IGDDistanceStep(l, r) ==
    variant = "igd" /\ l \in Compared /\ r \in Compared
    /\ Measured(l, r, IGDDistance(l, r))

\* the next aggregate call starts from fresh states, with the state the
\* last final call returned as previous state
StartIteration ==
    /\ ~err /\ phase = "done" /\ iter < MaxIter
    /\ variant \in Optimizers
    /\ part' = [p \in Parts |-> InitialState(variant)]
    /\ alive' = Parts
    /\ phase' = "scan"
    /\ prev' = fin
    /\ iter' = iter + 1
    /\ fed' = [r \in RowIds |-> 0]
    /\ terminated' = FALSE
    /\ UNCHANGED <<variant, fin, nfed, call, err>>

Next ==
    \/ \E p \in Parts, r \in RowIds : CGTransitionStep(p, r)
    \/ \E p \in Parts, r \in RowIds : IRLSTransitionStep(p, r)
    \/ \E p \in Parts, r \in RowIds : IGDTransitionStep(p, r)
    \/ \E p \in Parts, r \in RowIds, c \in CoefArgs : RobustTransitionStep(p, r, c)
    \/ \E p \in Parts, r \in RowIds, c \in CoefArgs : MarginalTransitionStep(p, r, c)
    \/ \E i, j \in Parts : CGMergeStep(i, j)
    \/ \E i, j \in Parts : IRLSMergeStep(i, j)
    \/ \E i, j \in Parts : IGDMergeStep(i, j)
    \/ \E i, j \in Parts : RobustMergeStep(i, j)
    \/ \E i, j \in Parts : MarginalMergeStep(i, j)
    \/ CGFinalStep
    \/ IRLSFinalStep
    \/ IGDFinalStep
    \/ RobustFinalStep
    \/ MarginalFinalStep
    \/ \E st \in Held : CGResultStep(st)
    \/ \E st \in Held : IRLSResultStep(st)
    \/ \E st \in Held : IGDResultStep(st)
    \/ \E l, r \in Compared : CGDistanceStep(l, r)
    \/ \E l, r \in Compared : IRLSDistanceStep(l, r)
    \/ \E l, r \in Compared : IGDDistanceStep(l, r)
    \/ StartIteration

Spec == Init /\ [][Next]_vars

\* ------------------------------------------------------------------------
\* Properties
\* ------------------------------------------------------------------------
\* the rows fed in this iteration, folded into one partition in the order
\* of RowList: fed[r] copies of row r, then the rows after r (each state
\* is made an explicit array before the next row is applied to it)
RECURSIVE CGFold(_, _, _)
CGFold(st, r, k) ==
    IF r > Len(RowList) THEN st
    ELSE IF k = 0
         THEN CGFold(st, r + 1, IF r < Len(RowList) THEN fed[r + 1] ELSE 0)
         ELSE CGFold(CGTransition(st, RowList[r], prev) \o << >>, r, k - 1)

RECURSIVE IRLSFold(_, _, _)
IRLSFold(st, r, k) ==
    IF r > Len(RowList) THEN st
    ELSE IF k = 0
         THEN IRLSFold(st, r + 1, IF r < Len(RowList) THEN fed[r + 1] ELSE 0)
         ELSE IRLSFold(IRLSTransition(st, RowList[r], prev) \o << >>, r, k - 1)

CGSequential == CGState(CGFold(InitialState("cg"), 1, fed[1]))
IRLSSequential == IRLSState(IRLSFold(InitialState("irls"), 1, fed[1]))

\* C1: within one iteration of CG or IRLS, however the rows were split over
\* the partitions and in whatever order the partition states were merged,
\* the fully merged state has the numRows, X_transp_AX, linear term (gradNew,
\* X_transp_Az), logLikelihood and coef of the sequential fold of the same
\* rows in one partition.
C1_PartitionAndMergeOrderIndependent ==
    /\ (variant = "cg" /\ FullyMerged) =>
          \A m \in {CGState(MergedState)}, q \in {CGSequential} :
              /\ m.numRows = q.numRows
              /\ m.X_transp_AX = q.X_transp_AX
              /\ m.gradNew = q.gradNew
              /\ m.logLikelihood = q.logLikelihood
              /\ m.coef = q.coef
    /\ (variant = "irls" /\ FullyMerged) =>
          \A m \in {IRLSState(MergedState)}, q \in {IRLSSequential} :
              /\ m.numRows = q.numRows
              /\ m.X_transp_AX = q.X_transp_AX
              /\ m.X_transp_Az = q.X_transp_Az
              /\ m.logLikelihood = q.logLikelihood
              /\ m.coef = q.coef

\* C1 happens: the last merge combined two partitions that both held rows
\* and left the single fully merged state
C1_Witness ==
    /\ variant \in {"cg", "irls"} /\ FullyMerged
    /\ call.op = "merge" /\ call.kind = "state"
    /\ NumRows(variant, call.left) > 0
    /\ NumRows(variant, call.right) > 0


\* the merge handler of variant v
MergeStates(v, l, r) ==
    CASE v = "cg" -> CGMergeStates(l, r)
      [] v = "irls" -> IRLSMergeStates(l, r)
      [] v = "igd" -> IGDMergeStates(l, r)
      [] v = "robust" -> RobustMergeStates(l, r)
      [] v = "marginal" -> MarginalMergeStates(l, r)

\* the numeric fields of an optimizer state that a merge combines
Summary(v, st) ==
    CASE v = "cg" ->
           [numRows |-> CGState(st).numRows, linear |-> CGState(st).gradNew,
            X_transp_AX |-> CGState(st).X_transp_AX,
            logLikelihood |-> CGState(st).logLikelihood,
            status |-> CGState(st).status, coef |-> CGState(st).coef]
      [] v = "irls" ->
           [numRows |-> IRLSState(st).numRows,
            linear |-> IRLSState(st).X_transp_Az,
            X_transp_AX |-> IRLSState(st).X_transp_AX,
            logLikelihood |-> IRLSState(st).logLikelihood,
            status |-> IRLSState(st).status, coef |-> IRLSState(st).coef]
      [] v = "igd" ->
           [numRows |-> IGDState(st).numRows, linear |-> << >>,
            X_transp_AX |-> IGDState(st).X_transp_AX,
            logLikelihood |-> IGDState(st).logLikelihood,
            status |-> IGDState(st).status, coef |-> IGDState(st).coef]

\* two vectors agree up to the rounding of a weighted average (0.01)
Close(u, v) ==
    /\ Len(u) = Len(v)
    /\ \A i \in 1..Len(u) :
          u[i] = v[i] \/ (IsFin(u[i]) /\ IsFin(v[i])
                          /\ Abs(u[i] - v[i]) <= Scale \div 100)

\* two merge outcomes agree on every numeric field
Agree(v, x, y) ==
    /\ ~x.threw /\ ~y.threw
    /\ \A s \in {Summary(v, x.st)}, t \in {Summary(v, y.st)} :
          /\ s.numRows = t.numRows
          /\ s.linear = t.linear
          /\ s.X_transp_AX = t.X_transp_AX
          /\ s.logLikelihood = t.logLikelihood
          /\ s.status = t.status
          /\ IF v = "igd" THEN Close(s.coef, t.coef) ELSE s.coef = t.coef

\* C2: for any three partition states of one optimizer variant (CG, IRLS, IGD)
\* with equal widthOfX, merge is commutative and associative: every grouping
\* and order of the merges gives the same numRows, accumulators,
\* logLikelihood, status and coef.
C2_MergeCommutativeAssociative ==
    (variant \in Optimizers /\ ~err /\ phase = "scan") =>
        \A a, b, c \in alive :
            (/\ a # b /\ b # c /\ a # c
             /\ WidthOfX(variant, part[a]) = WidthOfX(variant, part[b])
             /\ WidthOfX(variant, part[b]) = WidthOfX(variant, part[c])
             /\ Len(part[a]) = Len(part[b]) /\ Len(part[b]) = Len(part[c]))
            => /\ Agree(variant, MergeStates(variant, part[a], part[b]),
                                 MergeStates(variant, part[b], part[a]))
               /\ Agree(variant,
                        MergeStates(variant,
                            MergeStates(variant, part[a], part[b]).st, part[c]),
                        MergeStates(variant, part[a],
                            MergeStates(variant, part[b], part[c]).st))

\* C3: in all five variants a state with numRows = 0 is the identity of
\* merge: merge(A, Z) and merge(Z, A) return a state equal to A in every
\* field, for any state A and any state Z with numRows = 0.
C3_ZeroRowStateIsMergeIdentity ==
    call.op = "merge" =>
        /\ NumRows(variant, call.right) = 0 =>
              call.kind = "state" /\ call.st = call.left
        /\ NumRows(variant, call.left) = 0 =>
              call.kind = "state" /\ call.st = call.right

\* C4: if any transition of the iteration marked its partition TERMINATED,
\* then after all partitions are merged, in any order, the state finalize
\* returns and the tuple result returns carry status TERMINATED.
C4_TerminatedSurvivesMerge ==
    (variant \in Optimizers /\ terminated) =>
        /\ (call.op = "final" /\ call.kind = "state") =>
              Status(variant, call.st) = TERMINATED
        /\ (call.op = "result" /\ call.kind = "tuple") =>
              call.tup.status = TERMINATED

\* C5: for CG and IRLS the status of a merged state is the more severe of
\* the two input statuses, for every pair of states the merge accepts,
\* pairs with a numRows = 0 state included.
C5_MergedStatusIsMoreSevere ==
    (variant \in {"cg", "irls"} /\ call.op = "merge" /\ call.kind = "state") =>
        Status(variant, call.st) =
            IF Status(variant, call.right) > Status(variant, call.left)
            THEN Status(variant, call.right)
            ELSE Status(variant, call.left)

\* C6: in all five variants finalize on a state with numRows = 0 returns
\* Null, and finalize on a state with numRows > 0 never returns Null.
C6_FinalNullIffNoRows ==
    call.op = "final" =>
        (NumRows(variant, call.left) = 0 <=> call.kind = "null")

\* C6 happens: finalize was called on a fully merged state without rows
\* that is not the pristine zero array, and returned Null
C6_Witness ==
    /\ call.op = "final" /\ call.kind = "null"
    /\ NumRows(variant, call.left) = 0
    /\ call.left # InitialState(variant)

\* C7: the result operation (CG, IRLS, IGD) applied to a state with
\* numRows = 0 returns no-result and never a tuple with coefficients.
C7_ResultOnNoRowsIsNoResult ==
    (call.op = "result" /\ NumRows(variant, call.left) = 0) =>
        call.kind = "null"

\* whether merge is called on two states whose widthOfX or array size differ
MergeOfDifferentShapes ==
    /\ call.op = "merge"
    /\ \/ WidthOfX(variant, call.left) # WidthOfX(variant, call.right)
       \/ Len(call.left) # Len(call.right)

\* C8 as stated: for any two states of one variant whose widthOfX or array
\* size differ, merge raises the incompatible-states error; the mismatch
\* is never tolerated.
C8_AnyMismatchRaises == MergeOfDifferentShapes => call.kind = "error"

\* C8, amended: for two states of one variant whose widthOfX or array size
\* differ, merge raises the incompatible-states error and returns no state
\* when both states have numRows > 0; when one of them has numRows = 0 the
\* merge returns the other state unchanged and raises nothing.
C8_MismatchRaisesWhenBothHaveRows ==
    MergeOfDifferentShapes =>
        IF NumRows(variant, call.left) = 0
        THEN call.kind = "state" /\ call.st = call.right
        ELSE IF NumRows(variant, call.right) = 0
        THEN call.kind = "state" /\ call.st = call.left
        ELSE call.kind = "error" /\ call.st = Null

\* C8 happens: two partitions that accepted rows of different widths were
\* merged and the merge threw
C8_Witness ==
    /\ MergeOfDifferentShapes
    /\ NumRows(variant, call.left) > 0
    /\ NumRows(variant, call.right) > 0
    /\ call.kind = "error"

\* C9: when the first row a partition sees (numRows = 0) has more than 65535
\* features, the CG, IRLS and IGD transitions return the state with status
\* TERMINATED and with numRows, coef and every accumulator unchanged.
C9_OverWideFirstRowOnlySetsStatus ==
    (/\ variant \in Optimizers /\ call.op = "transition"
     /\ NumRows(variant, call.left) = 0
     /\ call.row.n > UInt16Max)
    => /\ call.kind = "state"
       /\ Len(call.st) = Len(call.left)
       /\ Summary(variant, call.st) =
             [Summary(variant, call.left) EXCEPT !.status = TERMINATED]

\* C9 happens: a fresh partition state was handed an over-wide row
C9_Witness ==
    /\ variant \in Optimizers /\ call.op = "transition"
    /\ NumRows(variant, call.left) = 0
    /\ Status(variant, call.left) = IN_PROCESS
    /\ call.row.n > UInt16Max

\* C10: once a partition state was marked TERMINATED for an over-wide row,
\* no later transition on that partition in the same iteration accumulates
\* anything: numRows and the accumulators stay as they are and the status
\* stays TERMINATED.
C10_TerminatedPartitionStopsAccumulating ==
    (/\ variant \in Optimizers /\ call.op = "transition"
     /\ Status(variant, call.left) = TERMINATED)
    => /\ Status(variant, call.st) = TERMINATED
       /\ NumRows(variant, call.st) = NumRows(variant, call.left)
       /\ Summary(variant, call.st) = Summary(variant, call.left)

\* the number of rows of width at most UInt16Max fed in this iteration
RECURSIVE AcceptedFrom(_)
AcceptedFrom(r) ==
    IF r > Len(RowList) THEN 0
    ELSE (IF RowList[r].n > UInt16Max THEN 0 ELSE fed[r]) + AcceptedFrom(r + 1)
AcceptedRows == AcceptedFrom(1)

\* C11: numRows is additive under merge and never decreases within an
\* iteration: a merge that returns a state returns one whose numRows is the
\* sum of the two inputs' numRows, the transition of an accepted row adds
\* exactly 1, and the fully merged state's numRows is the number of rows
\* accepted across all partitions.
C11_NumRowsAdditive ==
    /\ (call.op = "merge" /\ call.kind = "state") =>
          NumRows(variant, call.st) =
              NumRows(variant, call.left) + NumRows(variant, call.right)
    /\ (call.op = "transition" /\ call.row.n <= UInt16Max) =>
          NumRows(variant, call.st) = NumRows(variant, call.left) + 1
    /\ FullyMerged => NumRows(variant, MergedState) = AcceptedRows

\* C11 happens: two partitions that hold rows were merged into the single
\* state that is left, in any of the five variants
C11_Witness ==
    /\ FullyMerged /\ call.op = "merge" /\ call.kind = "state"
    /\ NumRows(variant, call.left) > 0
    /\ NumRows(variant, call.right) > 0
    /\ NumRows(variant, MergedState) = 3

\* the distance handler of variant v
Distance(v, l, r) ==
    CASE v = "cg" -> CGDistance(l, r)
      [] v = "irls" -> IRLSDistance(l, r)
      [] v = "igd" -> IGDDistance(l, r)

\* the logLikelihood of an optimizer state
LogLikelihood(v, st) == Summary(v, st).logLikelihood

\* the zero-filled state of variant v with logLikelihood set to ll
OnlyLogLikelihood(v, ll) ==
    Put1(InitialState(v), Len(InitialState(v)) - 2, ll)

MaxNumRows == 3
\* largest width of a drawn state: the widest matrix the modelled
\* decomposition handles
MaxWidth == 2

\* the array of a marginal-effects state with the given fields
MarginalArray(w, coef, numRows, meo, X_bar, X_transp_AX) ==
    Put(Put(Put1(Put1(Put(Put1(Zeros(MarginalArraySize(w)),
        MarginalRebind(w).widthOfX, w),
        MarginalRebind(w).coef, coef),
        MarginalRebind(w).numRows, numRows),
        MarginalRebind(w).marginal_effects_per_observation, meo),
        MarginalRebind(w).X_bar, X_bar),
        MarginalRebind(w).X_transp_AX, X_transp_AX) \o << >>

\* a * identity, as a w x w matrix
ScaledIdentity(w, a) ==
    [k \in 1..(w * w) |-> IF (k - 1) % w = (k - 1) \div w THEN a ELSE 0]

\* the states the final function is applied to
MarginalInputs ==
    {MarginalArray(w, coef, n, Scale \div 4, X_bar, ScaledIdentity(w, a)) :
        <<w, coef, X_bar>> \in
            UNION {{<<v, c, b>> : c \in [1..v -> {-Scale, Scale \div 2}],
                                  b \in [1..v -> {Scale, 2 * Scale}]} :
                   v \in 0..MaxWidth},
        n \in 0..MaxNumRows,
        a \in {0, Scale \div 4}}

InitMarginalFinal ==
    /\ variant = "marginal"
    /\ \E st \in MarginalInputs : part = [p \in Parts |-> st]
    /\ alive = {1}
    /\ phase = "merge"
    /\ prev = Null
    /\ fin = Null
    /\ iter = 1
    /\ nfed = 0
    /\ fed = [r \in RowIds |-> 0]
    /\ terminated = FALSE
    /\ call = NoCall
    /\ err = FALSE

SpecMarginalFinal == InitMarginalFinal /\ [][MarginalFinalStep]_vars

\* C13: the marginal-effects final function reports p-values if and only if
\* numRows > widthOfX, and computes them with numRows - widthOfX degrees of
\* freedom: with numRows = widthOfX they are withheld, with
\* numRows = widthOfX + 1 they are there, with 1 degree of freedom.
C13_PValuesIffMoreRowsThanWidth ==
    (variant = "marginal" /\ call.op = "final") =>
        \A s \in {MarginalState(call.left)} :
            /\ (call.kind = "tuple" /\ ~call.tup.pValuesNull)
                  <=> s.numRows > s.widthOfX
            /\ (call.kind = "tuple" /\ ~call.tup.pValuesNull) =>
                  call.tup.degreesOfFreedom = s.numRows - s.widthOfX
            /\ (call.kind = "tuple" /\ s.numRows = s.widthOfX + 1) =>
                  call.tup.degreesOfFreedom = 1

\* C13 happens: final returned a tuple for a state with as many rows as
\* features, and the tuple has no p-values
C13_Witness ==
    /\ variant = "marginal" /\ call.op = "final" /\ call.kind = "tuple"
    /\ MarginalState(call.left).widthOfX = 2
    /\ MarginalState(call.left).numRows = 2
    /\ call.tup.pValuesNull

\* the partitions whose state holds rows
WithRows == {p \in Parts : IGDState(part[p]).numRows > 0}

\* sum of numRows over the partitions of ps
RECURSIVE TotalNumRows(_)
TotalNumRows(ps) ==
    IF ps = {} THEN 0
    ELSE LET p == CHOOSE q \in ps : TRUE
         IN  IGDState(part[p]).numRows + TotalNumRows(ps \ {p})

\* sum over the partitions of ps of (numRows / total) * coef, coordinate k
RECURSIVE WeightedCoef(_, _, _)
WeightedCoef(ps, total, k) ==
    IF ps = {} THEN 0
    ELSE LET p == CHOOSE q \in ps : TRUE
         IN  Add(Mul(Div(ToDouble(IGDState(part[p]).numRows), ToDouble(total)),
                     IGDState(part[p]).coef[k]),
                 WeightedCoef(ps \ {p}, total, k))

\* the merged state is the weighted average of the partitions of ps
IsWeightedAverage(m, ps) ==
    /\ ~m.threw
    /\ IGDState(m.st).numRows = TotalNumRows(ps)
    /\ Close(IGDState(m.st).coef,
             [k \in 1..IGDBound(m.st) |-> WeightedCoef(ps, TotalNumRows(ps), k)])

\* C14: IGD partition states that hold rows and have one width merge, in
\* any order and grouping and over one or two merges, into a state whose coef
\* is the sum of (partition numRows / total numRows) * partition coef and
\* whose numRows is the total.
C14_IGDMergeIsWeightedAverage ==
    (variant = "igd" /\ ~err /\ phase = "scan") =>
        /\ \A a, b \in WithRows :
              (a # b /\ Len(part[a]) = Len(part[b])
                     /\ IGDBound(part[a]) = IGDBound(part[b]))
              => IsWeightedAverage(IGDMergeStates(part[a], part[b]), {a, b})
        /\ \A a, b, c \in WithRows :
              (/\ a # b /\ b # c /\ a # c
               /\ Len(part[a]) = Len(part[b]) /\ Len(part[b]) = Len(part[c])
               /\ IGDBound(part[a]) = IGDBound(part[b])
               /\ IGDBound(part[b]) = IGDBound(part[c]))
              => /\ IsWeightedAverage(
                      IGDMergeStates(
                          IGDMergeStates(part[a], part[b]).st \o << >>,
                          part[c]), {a, b, c})
                 /\ IsWeightedAverage(
                      IGDMergeStates(part[a],
                          IGDMergeStates(part[b], part[c]).st \o << >>),
                      {a, b, c})

\* C14 happens: two partitions with different row counts and different
\* coefficients are merged
C14_Witness ==
    /\ variant = "igd" /\ ~err /\ call.op = "merge" /\ call.kind = "state"
    /\ IGDState(call.left).numRows = 2
    /\ IGDState(call.right).numRows = 1
    /\ IGDBound(call.left) = 1
    /\ IGDState(call.left).coef # IGDState(call.right).coef
    /\ IGDState(call.st).coef # IGDState(call.left).coef
    /\ IGDState(call.st).numRows = 3

\* C15: IGD final on a state with numRows > 0 returns the state with
\* widthOfX, stepsize, coef, numRows, X_transp_AX, logLikelihood and status
\* unchanged.
C15_IGDFinalReturnsStateUnaltered ==
    (variant = "igd" /\ call.op = "final" /\ IGDState(call.left).numRows > 0)
    => /\ call.kind = "state"
       /\ call.st = call.left
       /\ IGDState(call.st) = IGDState(call.left)

\* C15 happens: IGD final returned a state of two rows of width 1
C15_Witness ==
    /\ variant = "igd" /\ call.op = "final" /\ call.kind = "state"
    /\ IGDState(call.left).numRows = 2
    /\ IGDState(call.left).widthOfX = 1
    /\ IGDState(call.left).coef # <<0>>

\* the inter-iteration fields of a CG or IRLS state
InterIteration(v, st) ==
    CASE v = "cg" -> <<CGState(st).coef, CGState(st).iteration,
                       CGState(st).dir, CGState(st).grad, CGState(st).beta>>
      [] v = "irls" -> <<IRLSState(st).coef>>

\* C16: in CG and IRLS, a transition on a state that already holds a row
\* returns coef (and CG's iteration, dir, grad, beta) as it was, and a merge
\* that returns a state returns them as they were in each operand that holds
\* rows.
C16_CoefFixedDuringIteration ==
    variant \in {"cg", "irls"} =>
        /\ (call.op = "transition" /\ NumRows(variant, call.left) > 0)
           => InterIteration(variant, call.st) = InterIteration(variant, call.left)
        /\ (call.op = "merge" /\ call.kind = "state")
           => /\ NumRows(variant, call.left) > 0
                 => InterIteration(variant, call.st)
                      = InterIteration(variant, call.left)
              /\ NumRows(variant, call.right) > 0
                 => InterIteration(variant, call.st)
                      = InterIteration(variant, call.right)

\* C16 happens: in a second CG iteration, with a coefficient that the first
\* final made non-zero, a partition takes a second row
C16_Witness ==
    /\ variant = "cg" /\ call.op = "transition" /\ iter = 2
    /\ CGState(call.left).numRows = 1
    /\ CGState(call.st).numRows = 2
    /\ CGState(call.left).iteration = 1
    /\ CGState(call.left).coef # <<0>>
    /\ CGState(call.left).dir # <<0>>

\* a zero-filled state of width w that holds only the inter-iteration fields
\* of the previous state p
Seeded(v, w, p) ==
    CASE v = "cg" ->
           Put1(Put(Put(Put(Put1(CGInitialize(w),
             CGRebind(w).iteration, CGState(p).iteration),
             CGRebind(w).coef, CGState(p).coef),
             CGRebind(w).dir, CGState(p).dir),
             CGRebind(w).grad, CGState(p).grad),
             CGRebind(w).beta, CGState(p).beta) \o << >>
      [] v = "irls" ->
           Put(IRLSInitialize(w), IRLSRebind(w).coef, IRLSState(p).coef) \o << >>
      [] v = "igd" ->
           Put(Put1(IGDInitialize(w), IGDRebind(w).stepsize, IGDStepsize),
               IGDRebind(w).coef, IGDState(p).coef) \o << >>

\* one row's contribution to a state of width w
Accumulate(v, st, w, row) ==
    CASE v = "cg" -> CGAccumulate(st, w, row)
      [] v = "irls" -> IRLSAccumulate(st, w, row)
      [] v = "igd" -> IGDAccumulate(st, w, row)

\* a transition call on the first row of a partition in a later iteration
FirstRowOnPrevious ==
    /\ variant \in Optimizers /\ call.op = "transition" /\ prev # Null
    /\ NumRows(variant, call.left) = 0 /\ call.row.n <= UInt16Max

\* the state of such a call holds that one row and nothing of the previous
\* iteration's accumulators
SingleRowOnly ==
    /\ NumRows(variant, call.st) = 1
    /\ Status(variant, call.st) = IN_PROCESS
    /\ call.st = Accumulate(variant, Seeded(variant, call.row.n, prev),
                            call.row.n, call.row)

\* C17 as stated: the first row of a partition with a previous state
\* (CG, IRLS, IGD) gives a state with the previous state's coef (and CG's
\* iteration, dir, grad, beta), numRows 1, status IN_PROCESS and accumulators
\* that hold that row's contribution only.
C17_FirstRowKeepsPreviousCoef ==
    FirstRowOnPrevious =>
        /\ SingleRowOnly
        /\ Summary(variant, call.st).coef = Summary(variant, prev).coef
        /\ variant = "cg"
             => InterIteration(variant, call.st) = InterIteration(variant, prev)

\* C17 amended: as above for CG and IRLS; in IGD the coef of the resulting
\* state is the previous coef plus that row's gradient step
\* stepsize * sigma(-xc * y) * y * x, with stepsize .01 and xc taken on the
\* previous coef.
C17_FirstRowSeededFromPrevious ==
    FirstRowOnPrevious =>
        /\ SingleRowOnly
        /\ variant \in {"cg", "irls"}
             => InterIteration(variant, call.st) = InterIteration(variant, prev)
        /\ variant = "igd"
             => IGDState(call.st).coef =
                  VAdd(IGDState(prev).coef,
                       VScale(Mul(Mul(IGDStepsize,
                                  sigma(Mul(Neg(dot(call.row.x, IGDState(prev).coef)),
                                            LabelOf(call.row)))),
                                  LabelOf(call.row)),
                              call.row.x))

\* C17 happens: an IRLS partition takes its first row after a final that left
\* the inverse's diagonal and the condition number in the previous state
C17_Witness ==
    /\ FirstRowOnPrevious /\ variant = "irls"
    /\ IRLSBound(prev) = 1
    /\ IRLSState(prev).X_transp_Az # <<0>>
    /\ IRLSState(prev).X_transp_AX # <<0>>
    /\ IRLSState(prev).coef # <<0>>
    /\ IRLSState(call.st).numRows = 1

\* the state a first row of a first iteration is folded into, zero-filled:
\* only widthOfX and, in IGD, the fixed stepsize are set
ZeroStart(v, w) ==
    CASE v = "cg" -> CGInitialize(w) \o << >>
      [] v = "irls" -> IRLSInitialize(w) \o << >>
      [] v = "igd" ->
           Put1(IGDInitialize(w), IGDRebind(w).stepsize, IGDStepsize) \o << >>

\* C18: the first row of the first iteration (no previous state) is folded,
\* in CG, IRLS and IGD, into a state whose coef is all zeros and whose
\* accumulators are zero: the state returned is that row's contribution to a
\* zero-filled state.
C18_FirstRowStartsFromZero ==
    (/\ variant \in Optimizers /\ call.op = "transition" /\ prev = Null
     /\ NumRows(variant, call.left) = 0 /\ call.row.n <= UInt16Max)
    => call.st = Accumulate(variant, ZeroStart(variant, call.row.n),
                            call.row.n, call.row)

\* the same for CG and IRLS alone, where it holds
FirstRowStartsFromZeroInCGAndIRLS ==
    variant \in {"cg", "irls"} => C18_FirstRowStartsFromZero

\* the state a row is accumulated into: the partition's state once it holds
\* rows, and for a first row the seeded or the zero-filled state
Base(v, st, row) ==
    IF NumRows(v, st) > 0 THEN st
    ELSE IF prev # Null THEN Seeded(v, row.n, prev)
    ELSE ZeroStart(v, row.n)

\* X_transp_AX and logLikelihood of state t are those of state s plus the
\* contribution of the row, with xc taken on the coef of s
RowAdded(v, s, t, row) ==
    \A xc \in {dot(row.x, Summary(v, s).coef)} :
        /\ Summary(v, t).X_transp_AX =
             VAdd(Summary(v, s).X_transp_AX,
                  OuterScaled(row.x, Mul(sigma(xc), sigma(Neg(xc)))))
        /\ Summary(v, t).logLikelihood =
             Sub(Summary(v, s).logLikelihood,
                 Log1pExp(Mul(Neg(LabelOf(row)), xc)))

\* C19: in CG, IRLS and IGD the transition of every accepted row adds
\* a * x * x^T to X_transp_AX and subtracts ln(1 + exp(-y * xc)) from
\* logLikelihood.
C19_EveryRowAccumulates ==
    (variant \in Optimizers /\ call.op = "transition"
       /\ call.row.n <= UInt16Max)
    => RowAdded(variant, Base(variant, call.left, call.row), call.st, call.row)

\* the same for CG and IRLS alone, where it holds
EveryRowAccumulatesInCGAndIRLS ==
    variant \in {"cg", "irls"} => C19_EveryRowAccumulates

\* sum of y * x / 2 over the accepted rows fed in this iteration, from row r
\* of RowList on, as a vector of width w
RECURSIVE HalfSumFrom(_, _)
HalfSumFrom(r, w) ==
    IF r > Len(RowList) THEN Zeros(w)
    ELSE IF RowList[r].n = w /\ fed[r] > 0
         THEN VAdd(VScale(Mul(ToDouble(fed[r]),
                              Div(LabelOf(RowList[r]), ToDouble(2))),
                          RowList[r].x),
                   HalfSumFrom(r + 1, w))
         ELSE HalfSumFrom(r + 1, w)

\* C20: CG final on a state with iteration 0 and numRows > 0 returns
\* dir = grad = gradNew, which is the sum over the rows of y * x / 2 (for the
\* one row x = [1, 2], y = +1: [0.5, 1.0]); every CG final that returns a state
\* returns iteration one higher; CG final on a state with numRows 0 returns
\* no state.
C20_CGFirstFinalIsSteepestDescent ==
    (variant = "cg" /\ call.op = "final") =>
        /\ (CGState(call.left).numRows > 0 /\ CGState(call.left).iteration = 0)
           => /\ call.kind = "state"
              /\ CGState(call.st).dir = CGState(call.left).gradNew
              /\ CGState(call.st).grad = CGState(call.left).gradNew
              /\ phase = "done"
                 => CGState(call.st).dir = HalfSumFrom(1, CGBound(call.left))
        /\ call.kind = "state"
           => CGState(call.st).iteration = CGState(call.left).iteration + 1
        /\ CGState(call.left).numRows = 0
           => call.kind = "null" /\ call.st = Null

\* C20 happens: the first CG final on the single row x = [1, 2], y = +1
\* returns dir = grad = [0.5, 1.0] and iteration 1
C20_Witness ==
    /\ variant = "cg" /\ call.op = "final" /\ call.kind = "state"
    /\ CGState(call.left).iteration = 0
    /\ CGState(call.left).numRows = 1
    /\ CGState(call.st).dir = <<Scale \div 2, Scale>>
    /\ CGState(call.st).grad = <<Scale \div 2, Scale>>
    /\ CGState(call.st).iteration = 1

\* ------------------------------------------------------------------------
\* robust variance and marginal effects on states of a given width
\* ------------------------------------------------------------------------
\* The transitions of these two variants never size the state (their call
\* of initialize is compiled out), so the width of the state is the one the
\* aggregate starts with: here every partition starts from initialize(w).
Supplied == {"robust", "marginal"}

InitSupplied ==
    /\ variant \in Supplied
    /\ \E w \in 0..MaxWidth :
          part = [p \in Parts |->
                    IF variant = "robust" THEN RobustInitialize(w)
                    ELSE MarginalInitialize(w)]
    /\ alive = Parts
    /\ phase = "scan"
    /\ prev = Null
    /\ fin = Null
    /\ iter = 1
    /\ nfed = 0
    /\ fed = [r \in RowIds |-> 0]
    /\ terminated = FALSE
    /\ call = NoCall
    /\ err = FALSE

NextSupplied ==
    \/ \E p \in Parts, r \in RowIds, c \in CoefArgs : RobustTransitionStep(p, r, c)
    \/ \E p \in Parts, r \in RowIds, c \in CoefArgs : MarginalTransitionStep(p, r, c)
    \/ \E i, j \in Parts : RobustMergeStep(i, j)
    \/ \E i, j \in Parts : MarginalMergeStep(i, j)
    \/ RobustFinalStep
    \/ MarginalFinalStep

SpecSupplied == InitSupplied /\ [][NextSupplied]_vars

\* entry k of a w x w matrix lies on or below the diagonal
InLower(k, w) == ((k - 1) % w) >= ((k - 1) \div w)

\* the CG state of width w with the given coef and X_transp_AX
CGTwin(w, coef, X_transp_AX) ==
    Put(Put(CGInitialize(w), CGRebind(w).coef, coef),
        CGRebind(w).X_transp_AX, X_transp_AX) \o << >>

\* X_transp_AX after the CG transition step on that state
CGTwinAfter(w, coef, X_transp_AX, row) ==
    CGView(CGAccumulate(CGTwin(w, coef, X_transp_AX), w, row), w).X_transp_AX

StateCoef(v, st) ==
    IF v = "robust" THEN RobustState(st).coef ELSE MarginalState(st).coef

IGDArray(w, coef, numRows, status) ==
    Put1(Put1(Put(Put1(IGDInitialize(w),
        IGDRebind(w).stepsize, IGDStepsize),
        IGDRebind(w).coef, coef),
        IGDRebind(w).numRows, numRows),
        IGDRebind(w).status, status) \o << >>

\* the states the merge is applied to: they hold rows, in each status
IGDInputs ==
    {IGDArray(wc[1], wc[2], n, s) :
        wc \in {<<0, << >> >>, <<1, <<IGDFirstCoef>> >>, <<1, <<-Scale>> >>},
        n \in 1..MaxNumRows,
        s \in {IN_PROCESS, COMPLETED, TERMINATED}}

InitIGDMerge ==
    /\ variant = "igd"
    /\ \E l, r \in IGDInputs :
          part = [p \in Parts |-> IF p = 1 THEN l
                                  ELSE IF p = 2 THEN r ELSE InitialState("igd")]
    /\ alive = {1, 2}
    /\ phase = "merge"
    /\ prev = Null
    /\ fin = Null
    /\ iter = 1
    /\ nfed = 0
    /\ fed = [r \in RowIds |-> 0]
    /\ terminated = FALSE
    /\ call = NoCall
    /\ err = FALSE

SpecIGDMerge == InitIGDMerge /\ [][\E i, j \in Parts : IGDMergeStep(i, j)]_vars

C24_WidthFixedByFirstRow ==
    variant \in Optimizers =>
        /\ (call.op = "transition" /\ call.row.n <= UInt16Max)
           => IF NumRows(variant, call.left) = 0
              THEN /\ WidthOfX(variant, call.st) = call.row.n
                   /\ Bound(variant, call.st) = call.row.n
                   /\ Len(call.st) = ArraySize(variant, call.row.n)
              ELSE /\ WidthOfX(variant, call.st) = WidthOfX(variant, call.left)
                   /\ Len(call.st) = Len(call.left)
        /\ (call.op = "merge" /\ call.kind = "state")
           => /\ NumRows(variant, call.left) > 0
                 => WidthOfX(variant, call.st) = WidthOfX(variant, call.left)
              /\ NumRows(variant, call.right) > 0
                 => WidthOfX(variant, call.st) = WidthOfX(variant, call.right)

\* C24 happens: a partition that took its first row, of width 2, from a
\* previous state takes a second row
C24_Witness ==
    /\ variant = "cg" /\ call.op = "transition" /\ prev # Null
    /\ CGState(call.left).numRows = 1
    /\ call.row.n = 2
    /\ CGState(call.st).widthOfX = 2
    /\ CGState(call.st).numRows = 2

\* a state is not COMPLETED, and holds no rows if it is TERMINATED
NeverCompleted(v, st) ==
    st # Null =>
        /\ Status(v, st) \in {IN_PROCESS, TERMINATED}
        /\ Status(v, st) = TERMINATED => NumRows(v, st) = 0

\* what holds of the states themselves: none is COMPLETED, a TERMINATED one
\* holds no rows, every state final returns is IN_PROCESS, and result reports
\* IN_PROCESS for every state that holds rows
StatusOfBuiltStates ==
    variant \in Optimizers =>
        /\ \A p \in Parts : NeverCompleted(variant, part[p])
        /\ NeverCompleted(variant, prev)
        /\ NeverCompleted(variant, fin)
        /\ call.kind = "state" => NeverCompleted(variant, call.st)
        /\ fin # Null => Status(variant, fin) = IN_PROCESS
        /\ prev # Null => Status(variant, prev) = IN_PROCESS
        /\ (call.op = "final" /\ call.kind = "state")
           => Status(variant, call.st) = IN_PROCESS
        /\ (call.op = "result" /\ call.kind = "tuple"
              /\ NumRows(variant, call.left) > 0)
           => call.tup.status = IN_PROCESS

\* C25: in CG, IRLS and IGD no state that transitions, merges and finals
\* build from the zero-filled state has status COMPLETED, a TERMINATED state
\* has numRows 0, every state returned by final has status IN_PROCESS, and
\* every status that result reports is IN_PROCESS.
C25_StatusOfReachableStates ==
    /\ StatusOfBuiltStates
    /\ (variant \in Optimizers /\ call.op = "result" /\ call.kind = "tuple")
       => call.tup.status = IN_PROCESS

Transition(v, st, row, previousState) ==
    CASE v = "cg" -> CGTransition(st, row, previousState)
      [] v = "irls" -> IRLSTransition(st, row, previousState)
      [] v = "igd" -> IGDTransition(st, row, previousState)

Final(v, st) ==
    CASE v = "cg" -> CGFinal(st)
      [] v = "irls" -> IRLSFinal(st)
      [] v = "igd" -> IGDFinal(st)

\* st with its status field set to s
WithStatus(v, st, s) ==
    Put1(st, Len(st) - 1, s) \o << >>

\* previous states: the final state of a first iteration of one row, with
\* each status
PreviousStates(v) ==
    {WithStatus(v, Final(v, Transition(v, InitialState(v), RowList[r], Null)), s) :
        r \in {q \in RowIds : RowList[q].n <= UInt16Max},
        s \in {IN_PROCESS, COMPLETED, TERMINATED}}

InitSeeded ==
    /\ variant \in Optimizers
    /\ part = [p \in Parts |-> InitialState(variant)]
    /\ alive = Parts
    /\ phase = "scan"
    /\ prev \in PreviousStates(variant)
    /\ fin = Null
    /\ iter = 2
    /\ nfed = 0
    /\ fed = [r \in RowIds |-> 0]
    /\ terminated = FALSE
    /\ call = NoCall
    /\ err = FALSE

NextSeeded ==
    \/ \E p \in Parts, r \in RowIds : CGTransitionStep(p, r)
    \/ \E p \in Parts, r \in RowIds : IRLSTransitionStep(p, r)
    \/ \E p \in Parts, r \in RowIds : IGDTransitionStep(p, r)

SpecSeeded == InitSeeded /\ [][NextSeeded]_vars

\* C27: in CG, IRLS and IGD, the first row of a partition seeded from a
\* previous state of any status (TERMINATED and COMPLETED included) gives a
\* state with status IN_PROCESS that holds that row's contribution, and later
\* rows are accumulated with the status left IN_PROCESS.
C27_StatusNotCarriedAcrossIterations ==
    /\ FirstRowOnPrevious
       => Status(variant, call.st) = IN_PROCESS /\ SingleRowOnly
    /\ (variant \in Optimizers /\ call.op = "transition" /\ prev # Null
          /\ NumRows(variant, call.left) > 0 /\ call.row.n <= UInt16Max)
       => /\ Status(variant, call.st) = IN_PROCESS
          /\ NumRows(variant, call.st) = NumRows(variant, call.left) + 1

\* C27 happens: a first row was seeded from a TERMINATED previous state
C27_Witness ==
    /\ FirstRowOnPrevious
    /\ Status(variant, prev) = TERMINATED
    /\ Bound(variant, prev) = 1
    /\ Status(variant, call.st) = IN_PROCESS
    /\ NumRows(variant, call.st) = 1

\* ------------------------------------------------------------------------
\* arraySize and rebind in the integer arithmetic of the code
\* ------------------------------------------------------------------------
\* The widths the guard accepts go up to 65535, where w * w no longer fits
\* the 32-bit int it is computed in.  A number is kept here as <<hi, lo>>,
\* meaning hi * 2^16 + lo with 0 <= lo < 2^16; hi is negative for a negative
\* number.
Limb == 65536
\* INT_MAX is 2^15 * 2^16 - 1
IntMaxHi == 32768

Wide(n) == <<n \div Limb, n % Limb>>
WAdd(a, b) == <<a[1] + b[1] + ((a[2] + b[2]) \div Limb), (a[2] + b[2]) % Limb>>
WLe(a, b) == a[1] < b[1] \/ (a[1] = b[1] /\ a[2] <= b[2])

\* x * y for 0 <= x, y < 2^16, by bytes
WMul(x, y) ==
    LET cross == (x \div 256) * (y % 256) + (x % 256) * (y \div 256)
        low   == (x % 256) * (y % 256) + (cross % 256) * 256
    IN  <<(x \div 256) * (y \div 256) + (cross \div 256) + (low \div Limb),
          low % Limb>>

\* c[1] + c[2] * w + c[3] * w * w, the value of the expression in the integers
Quadratic(c, w) ==
    WAdd(WAdd(Wide(c[1]), WMul(c[2], w)),
         IF c[3] = 0 THEN Wide(0)
         ELSE IF c[3] = 1 THEN WMul(w, w)
         ELSE WAdd(WMul(w, w), WMul(w, w)))

\* the expression does not fit an int: every term is non-negative, so it
\* overflows exactly when its value exceeds INT_MAX
Overflows(e) == e[1] >= IntMaxHi

\* the two's complement int with the low 32 bits of e
WrapInt(e) ==
    <<IF e[1] % Limb >= IntMaxHi THEN (e[1] % Limb) - Limb ELSE e[1] % Limb,
      e[2]>>

\* conversion to uint32_t
ToUInt32(e) == <<e[1] % Limb, e[2]>>

\* what a build makes of signed overflow: the wrapped int, or the value
\* computed in a wider register (or it traps, see RebindStep)
Outcomes == {"wrap", "wide", "trap"}
IntValue(e, o) == IF Overflows(e) /\ o = "wrap" THEN WrapInt(e) ELSE e

\* arraySize and the offsets of rebind as <<constant, factor of inWidthOfX,
\* factor of inWidthOfX * inWidthOfX>>, with the length of each view; u32
\* says that arraySize returns uint32_t and not size_t
One == <<1, 0, 0>>
Vector == <<0, 1, 0>>
Matrix == <<0, 0, 1>>

CGLayout ==
    [u32 |-> FALSE, arraySize |-> <<6, 4, 1>>, widthOfX |-> 2,
     fields |-> << <<<<0, 0, 0>>, One>>, <<<<1, 0, 0>>, One>>,
                   <<<<2, 0, 0>>, Vector>>, <<<<2, 1, 0>>, Vector>>,
                   <<<<2, 2, 0>>, Vector>>, <<<<2, 3, 0>>, One>>,
                   <<<<3, 3, 0>>, One>>, <<<<4, 3, 0>>, Vector>>,
                   <<<<4, 4, 0>>, Matrix>>, <<<<4, 4, 1>>, One>>,
                   <<<<5, 4, 1>>, One>> >>]

IRLSLayout ==
    [u32 |-> TRUE, arraySize |-> <<4, 2, 1>>, widthOfX |-> 1,
     fields |-> << <<<<0, 0, 0>>, One>>, <<<<1, 0, 0>>, Vector>>,
                   <<<<1, 1, 0>>, One>>, <<<<2, 1, 0>>, Vector>>,
                   <<<<2, 2, 0>>, Matrix>>, <<<<2, 2, 1>>, One>>,
                   <<<<3, 2, 1>>, One>> >>]

IGDLayout ==
    [u32 |-> TRUE, arraySize |-> <<5, 1, 1>>, widthOfX |-> 1,
     fields |-> << <<<<0, 0, 0>>, One>>, <<<<1, 0, 0>>, One>>,
                   <<<<2, 0, 0>>, Vector>>, <<<<2, 1, 0>>, One>>,
                   <<<<3, 1, 0>>, Matrix>>, <<<<3, 1, 1>>, One>>,
                   <<<<4, 1, 1>>, One>> >>]

RobustLayout ==
    [u32 |-> FALSE, arraySize |-> <<4, 1, 2>>, widthOfX |-> 2,
     fields |-> << <<<<0, 0, 0>>, One>>, <<<<1, 0, 0>>, One>>,
                   <<<<2, 0, 0>>, Vector>>, <<<<2, 1, 0>>, One>>,
                   <<<<3, 1, 0>>, Matrix>>, <<<<3, 1, 1>>, Matrix>> >>]

MarginalLayout ==
    [u32 |-> FALSE, arraySize |-> <<4, 2, 1>>, widthOfX |-> 2,
     fields |-> << <<<<0, 0, 0>>, One>>, <<<<1, 0, 0>>, One>>,
                   <<<<2, 0, 0>>, Vector>>, <<<<2, 1, 0>>, One>>,
                   <<<<3, 1, 0>>, One>>, <<<<4, 1, 0>>, Vector>>,
                   <<<<4, 2, 0>>, Matrix>> >>]

LayoutOf(v) ==
    CASE v = "cg" -> CGLayout
      [] v = "irls" -> IRLSLayout
      [] v = "igd" -> IGDLayout
      [] v = "robust" -> RobustLayout
      [] v = "marginal" -> MarginalLayout

\* what initialize(w) computes: the size passed to the allocator and, for each
\* view, the index it is bound at and its length
Rebound(v, w, o) ==
    [w      |-> w,
     ub     |-> Overflows(Quadratic(LayoutOf(v).arraySize, w)),
     size   |-> IF LayoutOf(v).u32
                THEN ToUInt32(IntValue(Quadratic(LayoutOf(v).arraySize, w), o))
                ELSE IntValue(Quadratic(LayoutOf(v).arraySize, w), o),
     fields |-> [k \in 1..Len(LayoutOf(v).fields) |->
                   [at  |-> IntValue(Quadratic(LayoutOf(v).fields[k][1], w), o),
                    len |-> Quadratic(LayoutOf(v).fields[k][2], w)]]]

\* the layout formula, in the integers
Mathematical(v, w) ==
    [w      |-> w,
     ub     |-> FALSE,
     size   |-> Quadratic(LayoutOf(v).arraySize, w),
     fields |-> [k \in 1..Len(LayoutOf(v).fields) |->
                   [at  |-> Quadratic(LayoutOf(v).fields[k][1], w),
                    len |-> Quadratic(LayoutOf(v).fields[k][2], w)]]]

\* largest of the small widths tried
MaxLayoutWidth == 16
\* the widths tried: the small ones, and those around 2^8, sqrt(2^31) and 2^16
LayoutWidths ==
    (0..MaxLayoutWidth) \cup {255, 256, 257, 46339, 46340, 46341, 65534, UInt16Max}

\* initialize(w) of the state class of the variant, up to the allocation
RebindStep(w, o) ==
    /\ call' = [NoCall EXCEPT
                  !.op = "rebind",
                  !.kind = IF Rebound(variant, w, o).ub /\ o = "trap"
                           THEN "error" ELSE "state",
                  !.lay = Rebound(variant, w, o)]
    /\ UNCHANGED <<variant, part, alive, phase, prev, fin, iter, nfed, fed,
                   terminated, err>>

SpecLayout == Init /\ [][\E w \in LayoutWidths, o \in Outcomes : RebindStep(w, o)]_vars

\* the views of a layout are pairwise disjoint and inside the buffer
WellLaidOut(lay) ==
    /\ \A k \in 1..Len(lay.fields) :
          /\ WLe(Wide(0), lay.fields[k].at)
          /\ WLe(WAdd(lay.fields[k].at, lay.fields[k].len), lay.size)
    /\ \A j, k \in 1..Len(lay.fields) :
          j < k => \/ WLe(WAdd(lay.fields[j].at, lay.fields[j].len),
                          lay.fields[k].at)
                   \/ WLe(WAdd(lay.fields[k].at, lay.fields[k].len),
                          lay.fields[j].at)

\* widthOfX is bound at the element the constructor reads the width from
WidthWhereConstructorReads(v, lay) ==
    /\ lay.fields[LayoutOf(v).widthOfX].len = Wide(1)
    /\ \A a \in {Put1(Zeros(ArraySize(v, 0)),
                      lay.fields[LayoutOf(v).widthOfX].at[2], 1)} :
          Bound(v, a) = 1

\* the tables above are the offsets of the state classes
LayoutIsRebind ==
    \A w \in 0..2 :
        /\ \A v \in Variants : Mathematical(v, w).size = Wide(ArraySize(v, w))
        /\ \A k \in 1..11 :
              Mathematical("cg", w).fields[k].at =
                Wide(<<CGRebind(w).iteration, CGRebind(w).widthOfX,
                       CGRebind(w).coef, CGRebind(w).dir, CGRebind(w).grad,
                       CGRebind(w).beta, CGRebind(w).numRows,
                       CGRebind(w).gradNew, CGRebind(w).X_transp_AX,
                       CGRebind(w).logLikelihood, CGRebind(w).status>>[k])
        /\ \A k \in 1..7 :
              /\ Mathematical("irls", w).fields[k].at =
                   Wide(<<IRLSRebind(w).widthOfX, IRLSRebind(w).coef,
                          IRLSRebind(w).numRows, IRLSRebind(w).X_transp_Az,
                          IRLSRebind(w).X_transp_AX,
                          IRLSRebind(w).logLikelihood, IRLSRebind(w).status>>[k])
              /\ Mathematical("igd", w).fields[k].at =
                   Wide(<<IGDRebind(w).widthOfX, IGDRebind(w).stepsize,
                          IGDRebind(w).coef, IGDRebind(w).numRows,
                          IGDRebind(w).X_transp_AX, IGDRebind(w).logLikelihood,
                          IGDRebind(w).status>>[k])
              /\ Mathematical("marginal", w).fields[k].at =
                   Wide(<<MarginalRebind(w).iteration, MarginalRebind(w).widthOfX,
                          MarginalRebind(w).coef, MarginalRebind(w).numRows,
                          MarginalRebind(w).marginal_effects_per_observation,
                          MarginalRebind(w).X_bar,
                          MarginalRebind(w).X_transp_AX>>[k])
        /\ \A k \in 1..6 :
              Mathematical("robust", w).fields[k].at =
                Wide(<<RobustRebind(w).iteration, RobustRebind(w).widthOfX,
                       RobustRebind(w).coef, RobustRebind(w).numRows,
                       RobustRebind(w).X_transp_AX, RobustRebind(w).meat>>[k])

\* C28: for every variant and every width, the views rebind binds are
\* pairwise disjoint and lie inside a buffer of arraySize elements, and
\* widthOfX is at the fixed leading element the constructor reads.
C28_FieldsDisjointAndInsideBuffer ==
    (call.op = "rebind" /\ call.kind = "state") =>
        /\ WellLaidOut(call.lay)
        /\ WidthWhereConstructorReads(variant, call.lay)

\* the same, for the widths whose layout fits an int
FieldsDisjointWhereNoOverflow ==
    (call.op = "rebind" /\ ~call.lay.ub) =>
        /\ LayoutIsRebind
        /\ WellLaidOut(call.lay)
        /\ WidthWhereConstructorReads(variant, call.lay)

\* C29: for every width the transition guard accepts (0..65535) the size and
\* the offsets that arraySize and rebind of CG, IRLS and IGD compute are those
\* of the layout formula, with no overflow of the int products and sums and no
\* wrap-around of the uint32_t result.
C29_LayoutWithoutWrapAround ==
    (variant \in Optimizers /\ call.op = "rebind"
       /\ call.lay.w <= UInt16Max)
    => /\ call.kind = "state"
       /\ ~call.lay.ub
       /\ call.lay = Mathematical(variant, call.lay.w)

\* the same, for the widths whose layout fits an int
LayoutExactWhereNoOverflow ==
    (call.op = "rebind" /\ ~call.lay.ub)
    => call.kind = "state" /\ call.lay = Mathematical(variant, call.lay.w)

=============================================================================
